---- MODULE Spec2Model ----
(***************************************************************************)
(* Ingestion-and-aggregation pipeline of the paid-media dashboard:         *)
(* record normalisation, dimension resolution, the fact-table load with    *)
(* its SQLAlchemy session (autoflush off) over PostgreSQL constraints, the *)
(* ingestion-log state machine, the upload handlers and the recovery       *)
(* monitor.                                                                *)
(***************************************************************************)
EXTENDS Integers, Sequences, FiniteSets, TLC

VARIABLES
    db,        \* committed rows: campaigns, strategies, placements, creatives, facts, staging
    logs,      \* committed ingestion_logs rows, a sequence indexed by id
    uploads,   \* committed uploaded_files rows, a sequence indexed by id
    tasks,     \* coroutines in flight: the sweep, a Surfside upload request, the daily job
    hist,      \* observations of the last finished load, read only by the properties
    race       \* two worker transactions resolving dimensions (SpecRace only)

vars == <<db, logs, uploads, tasks, hist, race>>

-----------------------------------------------------------------------------
(* Bounds of the model                                                     *)

MaxFileLen == 3      \* rows in one parsed file
MaxUploads == 2      \* upload requests accepted in one behaviour
MaxLogs == 2         \* ingestion_logs rows created in one behaviour
MaxCrashes == 1      \* process restarts in one behaviour
MaxResolves == 1     \* resolve requests in one behaviour
MaxFaults == 1       \* records of one load at which the storage fails
LifecycleUploads == 1 \* upload requests in one behaviour of the lifecycle
LifecycleRows == 2   \* rows of Master the files of the lifecycle are made of
AggFileLen == 2
MaxSettings == 2
MaxRaceLen == 2      \* records of one load of the two concurrent ones

-----------------------------------------------------------------------------
(* Values                                                                  *)

NULL == 0            \* SQL NULL in an id column; ids start at 1
None == -1           \* Python None in a derived metric
MISSING == -1        \* a raw numeric cell that is None or ''
OVERFLOWING == -3    \* a raw count cell holding 'inf' or '1e999'
UNPARSABLE == -2     \* a raw numeric cell holding text that is no number
NoDate == 0          \* a raw date cell that is None or in no known format

Client == 1
Sources == {"facebook", "surfside", "vibe"}
Terminal == {"success", "partial", "failed"}
DefaultCpm == 1700   \* Decimal('17.00'), in cents per thousand impressions
max_wait_seconds == 600         \* wait_for_report(max_wait_seconds=600)
poll_interval == 10             \* wait_for_report(poll_interval=10)
HttpTimeout == 30               \* httpx.AsyncClient(timeout=30.0)
VIBE_RATE_LIMIT_PER_HOUR == 15  \* settings.VIBE_RATE_LIMIT_PER_HOUR
utcnow == 2          \* datetime.utcnow() of the calls; effective dates are 0..3
TopLimit == 5        \* .limit(5) of the top-performer queries

\* A placement name is a pair: the plain name and the region suffix the
\* Facebook mapping appends (f"{ad_name} - {region}"); "" for no suffix.
PlainName(n) == <<n, "">>

-----------------------------------------------------------------------------
(* etl/transformer.py                                                      *)

\* str(value).strip() and re.sub(r'\s+', ' ', ...): the one untrimmed raw
\* name of the model is "a1 ", which normalises to "a1".
normalize_string(value) == IF value = "a1 " THEN "a1" ELSE value

\* parse_date: a date or a string in a known format parses; anything else raises.
parse_date_ok(value) == value # NoDate

\* parse_number: None, '' and unparsable text give the default 0. It catches
\* ValueError and TypeError only: int(float(value)) of an infinite value
\* raises OverflowError, which escapes.
parse_number_ok(value) == value # OVERFLOWING
parse_number(value) == IF value < 0 THEN 0 ELSE value

\* parse_decimal catches ValueError and TypeError only: Decimal(str(value)) of
\* unparsable text raises decimal.InvalidOperation, which escapes.
parse_decimal_ok(value) == value # UNPARSABLE
parse_decimal(value) == IF value < 0 THEN 0 ELSE value

\* A name left as it is, empty or not.
Undefaulted(s, dflt) == s

Or(s, dflt) == IF s = "" THEN dflt ELSE s

Unmapped == [ok |-> FALSE, date |-> NoDate, campaign_name |-> "", strategy_name |-> "",
             placement_name |-> PlainName(""), creative_name |-> "",
             impressions |-> 0, clicks |-> 0, conversions |-> 0, conversion_revenue |-> 0]

Mapped(raw, campaign, strategy, placement, creative) ==
    IF \/ ~parse_date_ok(raw.date) \/ ~parse_decimal_ok(raw.revenue)
       \/ ~parse_number_ok(raw.impressions) \/ ~parse_number_ok(raw.clicks)
       \/ ~parse_number_ok(raw.conversions)
    THEN Unmapped
    ELSE [ok |-> TRUE, date |-> raw.date, campaign_name |-> campaign,
          strategy_name |-> strategy, placement_name |-> placement,
          creative_name |-> creative,
          impressions |-> parse_number(raw.impressions),
          clicks |-> parse_number(raw.clicks),
          conversions |-> parse_number(raw.conversions),
          conversion_revenue |-> parse_decimal(raw.revenue)]

transform_surfside_record(raw) ==
    LET strategy_name == normalize_string(raw.strategy)
    IN Mapped(raw, Or(strategy_name, "Surfside Campaign"),
              Or(strategy_name, "General Strategy"),
              PlainName(Or(normalize_string(raw.placement), "General Placement")),
              Or(normalize_string(raw.creative), "General Creative"))

transform_vibe_record(raw) ==
    Mapped(raw, normalize_string(raw.campaign),
           Or(normalize_string(raw.strategy), "General Strategy"),
           PlainName(Or(normalize_string(raw.placement), "General Placement")),
           Or(normalize_string(raw.creative), "General Creative"))

\* 'ad name' is the raw field creative; it names the placement and the creative.
transform_facebook_record(raw) ==
    LET ad_name == normalize_string(raw.creative)
        region == normalize_string(raw.region)
        placement_name == IF region # "" /\ region # "unknown"
                          THEN <<ad_name, region>> ELSE PlainName(ad_name)
    IN Mapped(raw, normalize_string(raw.campaign),
              Or(normalize_string(raw.strategy), "General Strategy"),
              IF placement_name = PlainName("") THEN PlainName("General Placement")
                                               ELSE placement_name,
              Or(ad_name, "General Creative"))

transform_func(source, raw) ==
    CASE source = "surfside" -> transform_surfside_record(raw)
      [] source = "vibe" -> transform_vibe_record(raw)
      [] OTHER -> transform_facebook_record(raw)

\* validate_record over required_fields = date, campaign_name, strategy_name,
\* placement_name, creative_name: a field that is None or '' is missing.
validate_record(t) ==
    /\ t.date # NoDate
    /\ t.campaign_name # ""
    /\ t.strategy_name # ""
    /\ t.placement_name # PlainName("")
    /\ t.creative_name # ""

IsValid(source, raw) ==
    LET t == transform_func(source, raw) IN t.ok /\ validate_record(t)

\* validate_and_transform: the valid records in input order, and the number of
\* invalid ones (a raise inside the transform counts as invalid too).
RECURSIVE valid_records(_, _)
valid_records(records, source) ==
    IF records = <<>> THEN <<>>
    ELSE LET t == transform_func(source, Head(records))
             rest == valid_records(Tail(records), source)
         IN IF t.ok /\ validate_record(t) THEN <<t>> \o rest ELSE rest

invalid_count(records, source) == Len(records) - Len(valid_records(records, source))

DimKey(r) == <<r.date, r.campaign_name, r.strategy_name, r.placement_name, r.creative_name>>

\* aggregate_records: a dict keyed by DimKey in first-occurrence order, counts
\* and revenue summed.
RECURSIVE aggregate_into(_, _)
aggregate_into(acc, records) ==
    IF records = <<>> THEN acc
    ELSE LET r == Head(records)
             hit == {i \in 1..Len(acc) : DimKey(acc[i]) = DimKey(r)}
         IN IF hit = {}
            THEN aggregate_into(Append(acc, r), Tail(records))
            ELSE LET i == CHOOSE j \in hit : TRUE
                 IN aggregate_into(
                      [acc EXCEPT ![i].impressions = @ + r.impressions,
                                  ![i].clicks = @ + r.clicks,
                                  ![i].conversions = @ + r.conversions,
                                  ![i].conversion_revenue = @ + r.conversion_revenue],
                      Tail(records))

\* One record per key, that of the first occurrence, nothing added.
RECURSIVE first_of_each_key(_)
first_of_each_key(records) ==
    IF records = <<>> THEN <<>>
    ELSE LET rest == first_of_each_key(SubSeq(records, 1, Len(records) - 1))
             r == records[Len(records)]
         IN IF \E i \in DOMAIN rest : DimKey(rest[i]) = DimKey(r) THEN rest
            ELSE Append(rest, r)

aggregate_records(records) == aggregate_into(<<>>, records)


-----------------------------------------------------------------------------
(* metrics/calculator.py: Decimal arithmetic on scaled integers. Money is  *)
(* in cents, CTR in 1e-6 units, CPC, CPA and ROAS in 1e-4 units.           *)

\* Decimal.quantize under the default context rounds half to even.
RoundHalfEven(n, d) ==
    LET q == n \div d
        r == n % d
    IN IF 2 * r < d THEN q
       ELSE IF 2 * r > d THEN q + 1
       ELSE IF q % 2 = 0 THEN q ELSE q + 1

calculate_spend(impressions, cpm) ==
    IF impressions = 0 \/ cpm = 0 THEN 0
    ELSE RoundHalfEven(impressions * cpm, 1000)

\* (clicks / impressions) * 100, quantized to 0.000001
calculate_ctr(impressions, clicks) ==
    IF impressions = 0 THEN None
    ELSE RoundHalfEven(clicks * 100 * 1000000, impressions)

calculate_cpc(spend, clicks) ==
    IF clicks = 0 THEN None ELSE RoundHalfEven(spend * 100, clicks)

calculate_cpa(spend, conversions) ==
    IF conversions = 0 THEN None ELSE RoundHalfEven(spend * 100, conversions)

calculate_roas(revenue, spend) ==
    IF spend = 0 THEN None ELSE RoundHalfEven(revenue * 10000, spend)

calculate_all_metrics(impressions, clicks, conversions, revenue, cpm) ==
    LET spend == calculate_spend(impressions, cpm)
    IN [spend |-> spend,
        ctr |-> calculate_ctr(impressions, clicks),
        cpc |-> calculate_cpc(spend, clicks),
        cpa |-> calculate_cpa(spend, conversions),
        roas |-> calculate_roas(revenue, spend)]

-----------------------------------------------------------------------------
(* Storage: PostgreSQL tables behind one SQLAlchemy session                *)

EmptyDb == [campaigns |-> {}, strategies |-> {}, placements |-> {}, creatives |-> {},
            facts |-> {}, staging |-> {}, settings |-> {}, users |-> {},
            weekly |-> {}, monthly |-> {}]

MaxId(rows) == IF rows = {} THEN 0 ELSE CHOOSE m \in {r.id : r \in rows} :
                                          \A r \in rows : r.id <= m
FreshId(rows) == MaxId(rows) + 1

\* uq_daily_metrics_full. PostgreSQL holds two NULLs distinct, so the
\* constraint binds only rows whose key columns are all non-NULL.
FactKey(f) == <<f.client, f.date, f.campaign_id, f.strategy_id, f.placement_id,
                f.creative_id, f.source>>
KeyBinds(f) == f.campaign_id # NULL /\ f.strategy_id # NULL /\ f.placement_id # NULL
UniqueViolation(rows) ==
    \E f \in rows, g \in rows : /\ f.id # g.id
                                /\ FactKey(f) = FactKey(g)
                                /\ KeyBinds(f)

\* nullable=False, default=0 on ctr, cpc, cpa, roas: the ORM leaves a None
\* attribute out of an INSERT, so the column default 0 applies; an UPDATE
\* writes NULL and the NOT NULL constraint rejects it.
Defaulted(v) == IF v = None THEN 0 ELSE v
InsertRow(f) == [f EXCEPT !.ctr = Defaulted(@), !.cpc = Defaulted(@),
                          !.cpa = Defaulted(@), !.roas = Defaulted(@)]
NotNullViolation(f) == f.ctr = None \/ f.cpc = None \/ f.cpa = None \/ f.roas = None

\* A session over the committed rows `base`: c is what its queries see
\* (committed and flushed rows), pending the added fact rows not yet flushed
\* (autoflush=False: no query sees them), dirty the changed fact rows, live
\* the indexes of the batch records whose writes the transaction still holds.
NewSession(base) == [c |-> base, pending |-> {}, dirty |-> {}, live |-> {}]

\* Session.flush: the pending INSERTs and UPDATEs reach the database.
Flush(S) ==
    LET kept == {f \in S.c.facts : f.id \notin {d.id : d \in S.dirty}}
        rows == kept \cup S.dirty \cup {InsertRow(f) : f \in S.pending}
    IN IF (\E d \in S.dirty : NotNullViolation(d)) \/ UniqueViolation(rows)
       THEN [ok |-> FALSE, S |-> S]
       ELSE [ok |-> TRUE,
             S |-> [S EXCEPT !.c.facts = rows, !.pending = {}, !.dirty = {}]]

\* Query.first() without ORDER BY returns whichever matching row the scan
\* meets first: the lowest or the highest id here.
First(rows, pick) ==
    IF pick = "lo" THEN CHOOSE r \in rows : \A q \in rows : r.id <= q.id
                   ELSE CHOOSE r \in rows : \A q \in rows : r.id >= q.id

-----------------------------------------------------------------------------
(* clients/service.py                                                      *)

\* get_current_cpm: of the settings of the client and source whose
\* effective_date is not after target_datetime, the first in descending
\* effective_date; the order of rows of equal effective_date is not fixed by
\* the query. The result is None ({}) or one row.
get_current_cpm(dbv, client_id, source, target_datetime, pick) ==
    LET rows == {s \in dbv.settings : /\ s.client = client_id
                                      /\ s.source = source
                                      /\ s.effective_date <= target_datetime}
        latest == {s \in rows : \A q \in rows : q.effective_date <= s.effective_date}
    IN IF rows = {} THEN {} ELSE {First(latest, pick)}

-----------------------------------------------------------------------------
(* campaigns/service.py: each find_or_create_* returns [ok, S, id]         *)

Found(S, id) == [ok |-> TRUE, S |-> S, id |-> id]
Flushed(F, id) == [ok |-> F.ok, S |-> F.S, id |-> id]
Created(S, id) == Flushed(Flush(S), id)

find_or_create_campaign(S, client_id, campaign_name, source, pick) ==
    LET hit == {r \in S.c.campaigns : r.client = client_id /\ r.name = campaign_name
                                      /\ r.source = source}
        id == FreshId(S.c.campaigns)
    IN IF hit # {} THEN Found(S, First(hit, pick).id)
       ELSE Created([S EXCEPT !.c.campaigns = @ \cup
                       {[id |-> id, client |-> client_id, name |-> campaign_name,
                         source |-> source]}], id)

find_or_create_strategy(S, campaign_id, strategy_name, pick) ==
    LET hit == {r \in S.c.strategies : r.campaign_id = campaign_id
                                       /\ r.name = strategy_name}
        id == FreshId(S.c.strategies)
    IN IF hit # {} THEN Found(S, First(hit, pick).id)
       ELSE Created([S EXCEPT !.c.strategies = @ \cup
                       {[id |-> id, campaign_id |-> campaign_id,
                         name |-> strategy_name]}], id)

find_or_create_placement(S, strategy_id, placement_name, pick) ==
    LET hit == {r \in S.c.placements : r.strategy_id = strategy_id
                                       /\ r.name = placement_name}
        id == FreshId(S.c.placements)
    IN IF hit # {} THEN Found(S, First(hit, pick).id)
       ELSE Created([S EXCEPT !.c.placements = @ \cup
                       {[id |-> id, strategy_id |-> strategy_id,
                         name |-> placement_name]}], id)

\* The query filters on the parent that is given: placement_id or campaign_id.
find_or_create_creative(S, creative_name, placement_id, campaign_id, pick) ==
    LET hit == {r \in S.c.creatives :
                  /\ r.name = creative_name
                  /\ (placement_id # NULL => r.placement_id = placement_id)
                  /\ (campaign_id # NULL => r.campaign_id = campaign_id)}
        id == FreshId(S.c.creatives)
    IN IF hit # {} THEN Found(S, First(hit, pick).id)
       ELSE Created([S EXCEPT !.c.creatives = @ \cup
                       {[id |-> id, placement_id |-> placement_id,
                         campaign_id |-> campaign_id, name |-> creative_name]}], id)

Hierarchy(ok, S, campaign, strategy, placement, creative) ==
    [ok |-> ok, S |-> S, campaign |-> campaign, strategy |-> strategy,
     placement |-> placement, creative |-> creative]

\* The levels of create_hierarchy, each on the hierarchy h resolved so far and
\* skipped once an earlier level raised; a level whose name is empty raises.
campaign_of(h, client_id, campaign_name, source, pick) ==
    IF ~h.ok THEN h
    ELSE IF campaign_name = "" THEN [h EXCEPT !.ok = FALSE]
    ELSE LET r == find_or_create_campaign(h.S, client_id, campaign_name, source, pick)
         IN [h EXCEPT !.ok = r.ok, !.S = r.S, !.campaign = r.id]

strategy_of(h, strategy_name, pick) ==
    IF ~h.ok THEN h
    ELSE IF strategy_name = "" THEN [h EXCEPT !.ok = FALSE]
    ELSE LET r == find_or_create_strategy(h.S, h.campaign, strategy_name, pick)
         IN [h EXCEPT !.ok = r.ok, !.S = r.S, !.strategy = r.id]

placement_of(h, placement_name, pick) ==
    IF ~h.ok THEN h
    ELSE IF placement_name = PlainName("") THEN [h EXCEPT !.ok = FALSE]
    ELSE LET r == find_or_create_placement(h.S, h.strategy, placement_name, pick)
         IN [h EXCEPT !.ok = r.ok, !.S = r.S, !.placement = r.id]

creative_of(h, creative_name, placement_id, campaign_id, pick) ==
    IF ~h.ok THEN h
    ELSE LET r == find_or_create_creative(h.S, creative_name, placement_id, campaign_id, pick)
         IN [h EXCEPT !.ok = r.ok, !.S = r.S, !.creative = r.id]

creative_of_campaign(h, creative_name, pick) ==
    creative_of(h, creative_name, NULL, h.campaign, pick)

creative_of_placement(h, creative_name, pick) ==
    creative_of(h, creative_name, h.placement, NULL, pick)

\* create_hierarchy: facebook resolves campaign -> creative; surfside the
\* placeholder campaign "Surfside General" -> strategy -> placement ->
\* creative and returns no campaign; any other source the full chain.
create_hierarchy(S, client_id, source, rec, pick) ==
    IF source = "facebook" THEN
        creative_of_campaign(
            campaign_of(Hierarchy(TRUE, S, NULL, NULL, NULL, NULL),
                        client_id, rec.campaign_name, source, pick),
            rec.creative_name, pick)
    ELSE IF source = "surfside" THEN
        [creative_of_placement(
            placement_of(
                strategy_of(
                    campaign_of(Hierarchy(TRUE, S, NULL, NULL, NULL, NULL),
                                client_id, "Surfside General", source, pick),
                    Or(rec.strategy_name, "Unknown Strategy"), pick),
                IF rec.placement_name = PlainName("") THEN PlainName("Unknown Placement")
                ELSE rec.placement_name, pick),
            rec.creative_name, pick) EXCEPT !.campaign = NULL]
    ELSE
        creative_of_placement(
            placement_of(
                strategy_of(
                    campaign_of(Hierarchy(TRUE, S, NULL, NULL, NULL, NULL),
                                client_id, rec.campaign_name, source, pick),
                    rec.strategy_name, pick),
                rec.placement_name, pick),
            rec.creative_name, pick)

-----------------------------------------------------------------------------
(* etl/staging.py and etl/loader.py                                        *)

\* insert_staging_records: bulk_save_objects and flush, no commit: the rows
\* sit in the open transaction of the load.
insert_staging_records(S, ingestion_run_id, records) ==
    [S EXCEPT !.c.staging = @ \cup {[run |-> ingestion_run_id, idx |-> i] :
                                     i \in 1..Len(records)}]

Metric(client_id, source, rec, h, m, id) ==
    [id |-> id, client |-> client_id, date |-> rec.date,
     campaign_id |-> h.campaign, strategy_id |-> h.strategy,
     placement_id |-> h.placement, creative_id |-> h.creative,
     region_id |-> NULL, source |-> source,
     impressions |-> rec.impressions, clicks |-> rec.clicks,
     conversions |-> rec.conversions, conversion_revenue |-> rec.conversion_revenue,
     ctr |-> m.ctr, spend |-> m.spend, cpc |-> m.cpc, cpa |-> m.cpa, roas |-> m.roas]

\* The duplicate-detection query of the loader: client, date, creative, source
\* and campaign, strategy, placement and region each equal or each IS NULL.
\* The aggregated records carry no region_name, so region is None.
ExistingQuery(S, client_id, source, rec, h) ==
    {f \in S.c.facts : /\ f.client = client_id
                       /\ f.date = rec.date
                       /\ f.creative_id = h.creative
                       /\ f.source = source
                       /\ f.campaign_id = h.campaign
                       /\ f.strategy_id = h.strategy
                       /\ f.placement_id = h.placement
                       /\ f.region_id = NULL}

\* The row found is overwritten, else a new one is added to the session.
upsert(h, row, hit, pick, idx) ==
    IF hit # {}
    THEN [ok |-> TRUE,
          S |-> [h.S EXCEPT
                   !.dirty = {d \in @ : d.id # First(hit, pick).id} \cup
                             {[row EXCEPT !.id = First(hit, pick).id]},
                   !.live = @ \cup {idx}]]
    ELSE [ok |-> TRUE,
          S |-> [h.S EXCEPT
                   !.pending = @ \cup
                       {[row EXCEPT !.id = FreshId(h.S.c.facts \cup h.S.pending)]},
                   !.live = @ \cup {idx}]]

effective_cpm(cpm_settings) ==
    IF cpm_settings = {} THEN DefaultCpm ELSE (CHOOSE s \in cpm_settings : TRUE).cpm

store(h, cpm, ctx, rec, idx) ==
    IF ~h.ok THEN [ok |-> FALSE, S |-> h.S]
    ELSE upsert(h,
                Metric(ctx.client, ctx.source, rec, h,
                       calculate_all_metrics(rec.impressions, rec.clicks, rec.conversions,
                                             rec.conversion_revenue, cpm),
                       NULL),
                ExistingQuery(h.S, ctx.client, ctx.source, rec, h), ctx.pick, idx)

\* The body of the try block for one record: [ok, S].
load_record(S, ctx, rec, idx) ==
    store(create_hierarchy(S, ctx.client, ctx.source, rec, ctx.pick),
          effective_cpm(get_current_cpm(S.c, ctx.client, ctx.source, utcnow, ctx.pick)),
          ctx, rec, idx)

\* The end of one iteration: a record that raised counts as failed and the
\* except branch rolls the whole session back.
counted(acc, r, base) ==
    IF r.ok THEN [S |-> r.S, loaded |-> acc.loaded + 1, failed |-> acc.failed]
    ELSE [S |-> NewSession(base), loaded |-> acc.loaded, failed |-> acc.failed + 1]

\* The for loop; the storage fails at the records ctx.faults.
RECURSIVE load_loop(_, _, _, _)
load_loop(ctx, records, idx, acc) ==
    IF idx > Len(records) THEN acc
    ELSE load_loop(ctx, records, idx + 1,
            counted(acc,
                    IF idx \in ctx.faults THEN [ok |-> FALSE, S |-> acc.S]
                    ELSE load_record(acc.S, ctx, records[idx], idx),
                    ctx.base))

\* A final commit that raises without rolling back.
committed_without_rollback(acc, F, ctx) ==
    IF ~F.ok \/ ctx.commitFault
    THEN [raised |-> TRUE, db |-> F.S.c, loaded |-> 0, failed |-> 0, live |-> {}]
    ELSE [raised |-> FALSE, db |-> F.S.c, loaded |-> acc.loaded,
          failed |-> acc.failed, live |-> acc.S.live]

\* The final commit: a failing commit rolls back and raises.
committed(acc, F, ctx) ==
    IF ~F.ok \/ ctx.commitFault
    THEN [raised |-> TRUE, db |-> ctx.base, loaded |-> 0, failed |-> 0, live |-> {}]
    ELSE [raised |-> FALSE, db |-> F.S.c, loaded |-> acc.loaded,
          failed |-> acc.failed, live |-> acc.S.live]

commit(acc, ctx) == committed(acc, Flush(acc.S), ctx)

\* load_daily_metrics from the session S0 the orchestrator hands it.
load_daily_metrics(S0, ctx, records) ==
    commit(load_loop(ctx, records, 1, [S |-> S0, loaded |-> 0, failed |-> 0]), ctx)

-----------------------------------------------------------------------------
(* metrics/aggregator.py. Dates are day numbers of one year whose 1 January *)
(* (day 1) is a Monday.                                                     *)

MonthDays == <<31, 28, 31, 30, 31, 30, 31, 31, 30, 31, 30, 31>>

\* date(year, month, 1)
RECURSIVE first_of_month(_)
first_of_month(month) ==
    IF month = 1 THEN 1 ELSE first_of_month(month - 1) + MonthDays[month - 1]

\* date.weekday() is 0 on a Monday.
get_week_start(target_date) == target_date - ((target_date - 1) % 7)

\* func.sum over the rows a query selects; SUM over no row is NULL.
RECURSIVE func_sum(_, _)
func_sum(rows, column) ==
    IF rows = {} THEN NULL
    ELSE LET r == CHOOSE x \in rows : TRUE
         IN r[column] + func_sum(rows \ {r}, column)

PeriodFacts(dbv, client_id, start, end) ==
    {f \in dbv.facts : f.client = client_id /\ f.date >= start /\ f.date <= end}

PeriodTotals(rows) ==
    [impressions |-> func_sum(rows, "impressions"), clicks |-> func_sum(rows, "clicks"),
     conversions |-> func_sum(rows, "conversions"),
     revenue |-> func_sum(rows, "conversion_revenue"), spend |-> func_sum(rows, "spend")]

\* One group of a top-performer query: the fact rows joined to the dimension
\* rows of one name; ord is the place of the group in the scan.
TopGroup(name, members, dims) ==
    [name |-> name, conversions |-> func_sum(members, "conversions"),
     conversion_revenue |-> func_sum(members, "conversion_revenue"),
     spend |-> func_sum(members, "spend"),
     ord |-> MaxId({d \in dims : d.name = name})]

\* join(...).filter(...).group_by(name): fact rows without the dimension
\* fall out of the join.
group_by_name(rows, dims, fk) ==
    {TopGroup(n, {f \in rows : \E d \in dims : d.id = f[fk] /\ d.name = n}, dims) :
       n \in {d.name : d \in {x \in dims : \E f \in rows : f[fk] = x.id}}}

TopEntry(g) == [name |-> g.name, conversions |-> g.conversions,
                revenue |-> g.conversion_revenue, spend |-> g.spend]

\* order_by(sum.desc()).limit(n): groups of equal sum come in the order of
\* the scan, which the query does not fix.
RECURSIVE order_by_desc(_, _, _, _)
order_by_desc(groups, key, pick, limit) ==
    IF groups = {} \/ limit = 0 THEN <<>>
    ELSE LET best == {g \in groups : \A h \in groups : h[key] <= g[key]}
             g == IF pick = "lo" THEN CHOOSE x \in best : \A y \in best : x.ord <= y.ord
                                 ELSE CHOOSE x \in best : \A y \in best : x.ord >= y.ord
         IN <<TopEntry(g)>> \o order_by_desc(groups \ {g}, key, pick, limit - 1)

top_performers(groups, pick) ==
    [by_conversions |-> order_by_desc(groups, "conversions", pick, TopLimit),
     by_revenue |-> order_by_desc(groups, "conversion_revenue", pick, TopLimit)]

\* The attributes the aggregation sets on the summary row.
SummaryRow(dbv, client_id, start, end, rows, t, pick) ==
    [client |-> client_id, start |-> start, end |-> end,
     impressions |-> t.impressions, clicks |-> t.clicks, conversions |-> t.conversions,
     revenue |-> t.revenue, spend |-> t.spend,
     ctr |-> calculate_ctr(t.impressions, t.clicks),
     cpc |-> calculate_cpc(t.spend, t.clicks),
     cpa |-> calculate_cpa(t.spend, t.conversions),
     roas |-> calculate_roas(t.revenue, t.spend),
     top_campaigns |-> top_performers(group_by_name(rows, dbv.campaigns, "campaign_id"), pick),
     top_creatives |-> top_performers(group_by_name(rows, dbv.creatives, "creative_id"), pick)]

NoSummary(dbv) == [returned |-> FALSE, raised |-> FALSE, db |-> dbv]

\* A save that adds the new counts to those of the row it finds.
save_weekly_merging(dbv, row) ==
    LET old == {s \in dbv.weekly : s.client = row.client /\ s.start = row.start}
    IN [returned |-> TRUE, raised |-> FALSE,
        db |-> [dbv EXCEPT !.weekly = (@ \ old) \cup
                  {[row EXCEPT !.impressions = @ + func_sum(old, "impressions"),
                               !.clicks = @ + func_sum(old, "clicks")]}]]

\* Create or update summary, commit. WeeklySummary keeps a None ratio as NULL.
save_weekly(dbv, row) ==
    [returned |-> TRUE, raised |-> FALSE,
     db |-> [dbv EXCEPT !.weekly = {s \in @ : s.client # row.client \/ s.start # row.start}
                                   \cup {row}]]

\* MonthlySummary has the ratios NOT NULL with default 0: a None ratio takes
\* the default in the INSERT of a new row, and the UPDATE of an existing row
\* to NULL fails in the commit, which raises.
save_monthly(dbv, row) ==
    LET summary == {s \in dbv.monthly : s.client = row.client /\ s.start = row.start}
    IN IF summary = {}
       THEN [returned |-> TRUE, raised |-> FALSE,
             db |-> [dbv EXCEPT !.monthly = @ \cup {InsertRow(row)}]]
       ELSE IF NotNullViolation(row)
       THEN [returned |-> FALSE, raised |-> TRUE, db |-> dbv]
       ELSE [returned |-> TRUE, raised |-> FALSE,
             db |-> [dbv EXCEPT !.monthly = (@ \ summary) \cup {row}]]

\* `if not result or not result.impressions: return None`
weekly_summary(dbv, client_id, week_start, rows, t, pick) ==
    IF t.impressions = 0 THEN NoSummary(dbv)
    ELSE save_weekly(dbv, SummaryRow(dbv, client_id, week_start, week_start + 6,
                                     rows, t, pick))

aggregate_week(dbv, client_id, week_start, pick) ==
    LET rows == PeriodFacts(dbv, client_id, week_start, week_start + 6)
    IN weekly_summary(dbv, client_id, week_start, rows, PeriodTotals(rows), pick)

month_end_of(month) ==
    IF month = 12 THEN first_of_month(12) + MonthDays[12] - 1
    ELSE first_of_month(month + 1) - 1

monthly_summary(dbv, client_id, month, rows, t, pick) ==
    IF t.impressions = 0 THEN NoSummary(dbv)
    ELSE save_monthly(dbv, SummaryRow(dbv, client_id, first_of_month(month),
                                      month_end_of(month), rows, t, pick))

aggregate_month(dbv, client_id, month, pick) ==
    LET rows == PeriodFacts(dbv, client_id, first_of_month(month), month_end_of(month))
    IN monthly_summary(dbv, client_id, month, rows, PeriodTotals(rows), pick)

-----------------------------------------------------------------------------
(* Input rows and files                                                    *)

\* Raw rows as the parsers hand them over. For Facebook, strategy is the
\* 'ad set name' column and creative the 'ad name' column.
Ad1 == [date |-> 1, campaign |-> "c1", strategy |-> "s1", placement |-> "p1",
        creative |-> "a1", region |-> "", impressions |-> 1000, clicks |-> 10,
        conversions |-> 2, revenue |-> 5000]
Ad1Region == [Ad1 EXCEPT !.creative = "a1 ", !.region = "r1", !.impressions = 3000,
                         !.clicks = 7, !.conversions = 1]
NoCreative == [Ad1 EXCEPT !.creative = "", !.impressions = 500, !.clicks = 0,
                          !.conversions = MISSING, !.revenue = MISSING]
Ad2 == [Ad1 EXCEPT !.creative = "a2", !.impressions = 2000, !.clicks = 3]
NoDateRow == [Ad1 EXCEPT !.date = NoDate]
Totals == [Ad1 EXCEPT !.campaign = "", !.strategy = "", !.creative = ""]
BadRevenue == [Ad2 EXCEPT !.revenue = UNPARSABLE]

\* Rows of the second week of January and of 1 February; Unserved was not
\* shown once.
Unserved == [Ad1 EXCEPT !.date = 8, !.impressions = 0, !.clicks = 0, !.conversions = 0,
                        !.revenue = 0]
February == [NoCreative EXCEPT !.date = 32, !.creative = "a1"]

Master == <<NoDateRow, Ad1, Ad1Region, NoCreative, Ad2, Totals, BadRevenue>>

\* The files of the model: the windows of Master of at most MaxFileLen rows,
\* the file without rows included.
Files == {SubSeq(Master, w[1], w[2]) :
            w \in {v \in (1..Len(Master)) \X (0..Len(Master)) :
                     v[2] - v[1] + 1 \in 0..MaxFileLen}}

\* The files of the aggregation runs: the windows of AggMaster of one to
\* AggFileLen rows.
AggMaster == <<Ad1, Ad2, Unserved, February>>
AggFiles == {SubSeq(AggMaster, w[1], w[2]) :
               w \in {v \in (1..Len(AggMaster)) \X (1..Len(AggMaster)) :
                        v[2] - v[1] + 1 \in 1..AggFileLen}}

FileNames == <<"a.csv", "b.csv", "c.csv", "d.csv">>

\* FacebookParser.parse_file: a file without rows or without the Facebook
\* columns raises; rows with an empty campaign name (totals rows) are dropped.
HasCampaign(raw) == raw.campaign # ""
facebook_parse_ok(upload) == upload.file # <<>> /\ upload.source = "facebook"
facebook_parse_file(upload) == SelectSeq(upload.file, HasCampaign)

\* SurfsideParser.parse_file: a file without rows raises.
surfside_parse_ok(file) == file # <<>>

-----------------------------------------------------------------------------
(* State                                                                   *)

TaskIds == {"sweep", "sweep2", "upload", "daily"}

\* A coroutine: its position, the locals of the sweep (queue), of the callers
\* of the pipeline (log, upload, source, file_name, raw, err) and of
\* wait_for_report (elapsed, checks, status).
Idle == [pc |-> "idle", queue |-> <<>>, log |-> NULL, upload |-> NULL, source |-> "",
         file_name |-> "", raw |-> <<>>, err |-> <<>>,
         elapsed |-> 0, checks |-> 0, status |-> ""]

\* The pcs at which a coroutine is suspended in an await that yields to the
\* event loop (the e-mail alerts); database calls are synchronous.
AwaitPcs == {"idle", "alert_validation", "alert_failure", "alert_error"}
CanRun(k) == \A j \in TaskIds \ {k} : tasks[j].pc \in AwaitPcs
Quiet == \A j \in TaskIds : tasks[j].pc \in AwaitPcs

\* admin_emails: the e-mail addresses of the active admin users.
admin_emails == db.users

IngestionLog(source, file_name) ==
    [status |-> "processing", message |-> <<>>, records_loaded |-> 0,
     records_failed |-> 0, finished_at |-> FALSE, file_name |-> file_name,
     source |-> source, resolution_status |-> ""]

UploadedFile(source, file_name, upload_status, file) ==
    [source |-> source, file_name |-> file_name, upload_status |-> upload_status,
     records_count |-> 0, error_message |-> <<>>, file |-> file]

NoRun == [log |-> NULL, source |-> "", raw |-> <<>>, n |-> 0, invalid |-> 0,
          loaded |-> 0, failed |-> 0, live |-> {}, outcome |-> "",
          before |-> EmptyDb, after |-> EmptyDb, pick |-> "lo"]

\* The rate on file in the loads: one for Facebook, the other sources fall
\* back to the default rate.
FacebookRate == {[id |-> 1, client |-> Client, source |-> "facebook",
                  cpm |-> 2000, effective_date |-> 0]}

RaceIdle == [on |-> FALSE]

\* What the properties read of the last call of the aggregator.
NoAgg == [kind |-> "", period |-> 0, start |-> NoDate, end |-> NoDate, returned |-> FALSE, raised |-> FALSE,
          before |-> EmptyDb, after |-> EmptyDb]

\* The inputs and the result of a call of calculate_all_metrics.
NoCalc == [impressions |-> 0, clicks |-> 0, conversions |-> 0, revenue |-> 0, cpm |-> 0,
           done |-> FALSE, out |-> <<>>]

\* What the properties read of the last rate lookup.
NoRate == [called |-> FALSE, source |-> "", settings |-> {}, found |-> {}]

\* A raw record and what validate_and_transform returned for it.
NoParse == [source |-> "", raw |-> <<>>, done |-> FALSE, valid |-> <<>>, invalid |-> 0]

\* The run that was cut off between the commit of the loader and the ledger
\* update: the tables before it, and the status it was about to write.
NoResume == [log |-> NULL, before |-> EmptyDb, status |-> ""]

NoHist == [last |-> NoRun, crashes |-> 0, resolves |-> 0, agg |-> NoAgg, calc |-> NoCalc,
           rate |-> NoRate, parse |-> NoParse, resume |-> NoResume]

\* After start-up: empty tables but for the users and the rate settings.
Started(users, settings) ==
    /\ db = [EmptyDb EXCEPT !.users = users, !.settings = settings]
    /\ logs = <<>>
    /\ uploads = <<>>
    /\ tasks = [k \in TaskIds |-> Idle]
    /\ hist = NoHist
    /\ race = RaceIdle

Init == \E users \in SUBSET {"admin@x"} : Started(users, {})

InitLoad == Started({}, FacebookRate)

-----------------------------------------------------------------------------
(* Upload requests and scheduled jobs                                      *)

\* FacebookUploadHandler.process_upload: the upload record and the ledger
\* entry are committed as 'processing' and the request returns.
FacebookUpload(file, name) ==
    /\ Quiet
    /\ Len(uploads) < MaxUploads
    /\ Len(logs) < MaxLogs
    /\ uploads' = Append(uploads, UploadedFile("facebook", name, "processing", file))
    /\ logs' = Append(logs, IngestionLog("facebook", name))
    /\ UNCHANGED <<db, tasks, hist, race>>

\* SurfsideUploadHandler.process_upload up to the call of the pipeline: the
\* upload record goes pending -> processing, the file is parsed.
SurfsideUpload(file, name) ==
    /\ Quiet
    /\ tasks["upload"].pc = "idle"
    /\ Len(uploads) < MaxUploads
    /\ Len(logs) < MaxLogs
    /\ IF surfside_parse_ok(file)
       THEN /\ uploads' = Append(uploads,
                 [UploadedFile("surfside", name, "processing", file)
                    EXCEPT !.records_count = Len(file)])
            /\ tasks' = [tasks EXCEPT !["upload"] =
                 [Idle EXCEPT !.pc = "pipeline", !.upload = Len(uploads) + 1,
                              !.source = "surfside", !.file_name = name, !.raw = file]]
       ELSE /\ uploads' = Append(uploads,
                 [UploadedFile("surfside", name, "failed", file)
                    EXCEPT !.error_message = <<"File is empty">>])
            /\ UNCHANGED tasks
    /\ UNCHANGED <<db, logs, hist, race>>

\* run_all_daily_ingestions for the one client, enabled for one of the two
\* scheduled sources: the ETL of the source fetches a file with rows (without
\* one it raises before the pipeline) and calls the pipeline. The Surfside
\* ledger entry carries the S3 file name, the Vibe entry no file name.
DailyIngestion(source, file) ==
    /\ Quiet
    /\ tasks["daily"].pc = "idle"
    /\ Len(logs) < MaxLogs
    /\ file # <<>>
    /\ tasks' = [tasks EXCEPT !["daily"] =
         [Idle EXCEPT !.pc = "pipeline", !.source = source,
                      !.file_name = IF source = "surfside" THEN "s3.csv" ELSE "",
                      !.raw = file]]
    /\ UNCHANGED <<db, logs, uploads, hist, race>>

-----------------------------------------------------------------------------
(* jobs/ingestion_monitor.py                                               *)

RECURSIVE Ascending(_)
Ascending(ids) ==
    IF ids = {} THEN <<>>
    ELSE LET m == CHOOSE i \in ids : \A j \in ids : i <= j
         IN <<m>> \o Ascending(ids \ {m})

pending_logs == Ascending({l \in DOMAIN logs :
                             logs[l].status = "processing" /\ ~logs[l].finished_at})

\* The query for the upload record of a ledger entry: by file name (and
\* client), the latest first.
uploaded_file(l) ==
    LET found == {u \in DOMAIN uploads : uploads[u].file_name = logs[l].file_name}
    IN IF found = {} THEN NULL ELSE CHOOSE u \in found : \A v \in found : v <= u

\* A ledger entry left as it is.
LeftProcessing(log) == log

\* No upload record for the ledger entry: the entry is failed, with
\* finished_at = created_at, and committed.
SourceNotFound(log) ==
    [log EXCEPT !.status = "failed", !.message = <<"Source file record not found">>,
                !.finished_at = TRUE]

\* check_pending_uploads up to its loop. Nothing in the program schedules it
\* (setup_all_jobs registers the daily, weekly and monthly jobs only): it runs
\* when something outside calls it. Its module imports
\* process_surfside_upload_background, which surfside/upload_handler.py does
\* not define; the sweep is modelled as if the name were missing only where
\* it is called, so that the Facebook branch can be exercised.
SweepStart(k) ==
    /\ CanRun(k)
    /\ tasks[k].pc = "idle"
    /\ pending_logs # <<>>
    /\ tasks' = [tasks EXCEPT ![k] = [Idle EXCEPT !.pc = "next", !.queue = pending_logs]]
    /\ UNCHANGED <<db, logs, uploads, hist, race>>

\* One iteration of the loop over pending_logs, up to the call of the
\* pipeline inside process_facebook_upload_background.
SweepNext(k) ==
    LET t == tasks[k]
        l == Head(t.queue)
        u == uploaded_file(l)
        rest == [t EXCEPT !.queue = Tail(t.queue)]
    IN /\ CanRun(k)
       /\ t.pc = "next"
       /\ IF t.queue = <<>>
          THEN /\ tasks' = [tasks EXCEPT ![k] = Idle]
               /\ UNCHANGED <<logs, uploads>>
          ELSE IF u = NULL
          THEN /\ logs' = [logs EXCEPT ![l] = SourceNotFound(@)]
               /\ tasks' = [tasks EXCEPT ![k] = rest]
               /\ UNCHANGED uploads
          ELSE IF logs[l].source = "facebook"
          THEN IF facebook_parse_ok(uploads[u])
               THEN /\ uploads' = [uploads EXCEPT ![u].records_count =
                                      Len(facebook_parse_file(uploads[u]))]
                    /\ tasks' = [tasks EXCEPT ![k] =
                         [rest EXCEPT !.pc = "pipeline", !.log = l, !.upload = u,
                                      !.source = "facebook",
                                      !.file_name = logs[l].file_name,
                                      !.raw = facebook_parse_file(uploads[u])]]
                    /\ UNCHANGED logs
               ELSE /\ uploads' = [uploads EXCEPT
                         ![u].upload_status = "failed",
                         ![u].error_message = <<"Processing failed: ", "File is empty">>]
                    /\ logs' = [logs EXCEPT
                         ![l].status = "failed",
                         ![l].message = <<"Parsing failed: ", "File is empty">>,
                         ![l].finished_at = TRUE]
                    /\ tasks' = [tasks EXCEPT ![k] = rest]
          ELSE /\ tasks' = [tasks EXCEPT ![k] = rest]
               /\ UNCHANGED <<logs, uploads>>
       /\ UNCHANGED <<db, hist, race>>

\* process_facebook_upload_background when the file does not parse and the
\* commit of the inner except block fails: the failed commit rolls the
\* session back, the outer except block writes status and message of the
\* ledger entry, nothing else, and its commit goes through. The upload record
\* is as it was.
FacebookFatal(k) ==
    LET t == tasks[k]
        l == Head(t.queue)
        u == uploaded_file(l)
    IN /\ CanRun(k)
       /\ t.pc = "next"
       /\ t.queue # <<>>
       /\ u # NULL
       /\ logs[l].source = "facebook"
       /\ ~facebook_parse_ok(uploads[u])
       /\ logs' = [logs EXCEPT ![l].status = "failed",
                               ![l].message = <<"Fatal error: ", "commit failed">>]
       /\ tasks' = [tasks EXCEPT ![k] = [t EXCEPT !.queue = Tail(t.queue)]]
       /\ UNCHANGED <<db, uploads, hist, race>>

-----------------------------------------------------------------------------
(* etl/orchestrator.py: run_etl_pipeline of the coroutine k                *)

\* An entry that takes no account of the ledger id it is given and always
\* creates a new ledger entry.
PEnterCreating(k) ==
    /\ CanRun(k)
    /\ tasks[k].pc = "pipeline"
    /\ logs' = Append(logs, IngestionLog(tasks[k].source, tasks[k].file_name))
    /\ tasks' = [tasks EXCEPT ![k].log = Len(logs) + 1,
                              ![k].pc = IF invalid_count(tasks[k].raw, tasks[k].source) > 0
                                           /\ admin_emails # {}
                                        THEN "alert_validation" ELSE "validated"]
    /\ UNCHANGED <<db, uploads, hist, race>>

\* Entry: the ledger entry is fetched by id or created and committed, the
\* records are validated; invalid records with admins to tell suspend the
\* coroutine in the validation alert.
PEnter(k) ==
    LET t == tasks[k]
        l == IF t.log # NULL THEN t.log ELSE Len(logs) + 1
    IN /\ CanRun(k)
       /\ t.pc = "pipeline"
       /\ logs' = IF t.log # NULL THEN logs
                  ELSE Append(logs, IngestionLog(t.source, t.file_name))
       /\ tasks' = [tasks EXCEPT ![k].log = l,
                                 ![k].pc = IF invalid_count(t.raw, t.source) > 0
                                              /\ admin_emails # {}
                                           THEN "alert_validation" ELSE "validated"]
       /\ UNCHANGED <<db, uploads, hist, race>>

PAlertValidation(k) ==
    /\ CanRun(k)
    /\ tasks[k].pc = "alert_validation"
    /\ tasks' = [tasks EXCEPT ![k].pc = "validated"]
    /\ UNCHANGED <<db, logs, uploads, hist, race>>

\* A ledger update that takes no account of the invalid records.
FinishedIgnoringInvalid(log, loaded, failed, invalid) ==
    [log EXCEPT
       !.records_loaded = loaded,
       !.records_failed = failed,
       !.finished_at = TRUE,
       !.status = IF failed = 0 THEN "success"
                  ELSE IF loaded > 0 THEN "partial" ELSE "failed",
       !.message = <<"Processed", loaded, failed>>]

\* The ledger update at the end of the try block.
Finished(log, loaded, failed, invalid) ==
    [log EXCEPT
       !.records_loaded = loaded,
       !.records_failed = failed + invalid,
       !.finished_at = TRUE,
       !.status = IF failed = 0 /\ invalid = 0 THEN "success"
                  ELSE IF loaded > 0 THEN "partial" ELSE "failed",
       !.message = IF failed = 0 /\ invalid = 0 THEN <<"Successfully processed", loaded>>
                   ELSE IF loaded > 0 THEN <<"Processed", loaded, failed + invalid>>
                   ELSE <<"All records failed to process">>]

\* The ledger update of the except block.
Excepted(log, e, raw_records) ==
    [log EXCEPT !.status = "failed", !.message = e, !.finished_at = TRUE,
                !.records_failed = Len(raw_records)]

FreshRun(dbv) == FreshId({[id |-> s.run] : s \in dbv.staging})

\* What the properties read of a run of the pipeline.
Observed(k, invalid, n, pick, r, outcome, after) ==
    [log |-> tasks[k].log, source |-> tasks[k].source, raw |-> tasks[k].raw,
     n |-> n, invalid |-> invalid, pick |-> pick, before |-> db,
     loaded |-> r.loaded, failed |-> r.failed, live |-> r.live,
     outcome |-> outcome, after |-> after]

NotLoaded == [loaded |-> 0, failed |-> 0, live |-> {}]

\* The except block: the ledger entry is written 'failed' and committed,
\* the failure alert awaited if there are admins, the exception re-raised.
PExcept(k, e, after, seen) ==
    /\ db' = after
    /\ logs' = [logs EXCEPT ![tasks[k].log] = Excepted(@, e, tasks[k].raw)]
    /\ tasks' = [tasks EXCEPT ![k].err = e,
                    ![k].pc = IF admin_emails # {} THEN "alert_error" ELSE "raised"]
    /\ hist' = [hist EXCEPT !.last = seen]

\* The end of the try block: the ledger update and its commit.
PFinish(k, r, invalid, seen) ==
    /\ db' = r.db
    /\ logs' = [logs EXCEPT ![tasks[k].log] = Finished(@, r.loaded, r.failed, invalid)]
    /\ tasks' = [tasks EXCEPT ![k].pc =
         IF logs'[tasks[k].log].status = "failed" /\ admin_emails # {}
         THEN "alert_failure" ELSE "returned"]
    /\ hist' = [hist EXCEPT !.last = seen]

\* AggregatorService.aggregate_date_range(db, client_id, min_date, max_date):
\* the class defines no such attribute, the lookup raises AttributeError and
\* nothing is aggregated.
aggregate_date_range(dbv, client_id, min_date, max_date) ==
    [raised |-> TRUE, db |-> dbv]

min(dates) == CHOOSE d \in dates : \A e \in dates : d <= e
max(dates) == CHOOSE d \in dates : \A e \in dates : d >= e

\* Step 4 of the try block, after a load that did not raise: with a record
\* loaded the aggregator is called for the dates of the batch; what it raises
\* is caught and logged.
immediate_aggregation(r, aggregated_records, client_id) ==
    LET dates == {aggregated_records[i].date : i \in DOMAIN aggregated_records}
    IN IF r.loaded > 0 /\ aggregated_records # <<>>
       THEN [r EXCEPT !.db = aggregate_date_range(r.db, client_id,
                                                  min(dates), max(dates)).db]
       ELSE r

\* After the load and the immediate aggregation: the ledger transition.
PLoaded(k, invalid, n, pick, r) ==
    IF r.raised
    THEN PExcept(k, <<"commit failed">>, r.db,
                 Observed(k, invalid, n, pick, NotLoaded, "commit failed", r.db))
    ELSE PFinish(k, r, invalid, Observed(k, invalid, n, pick, r, "finished", r.db))

PStageAndLoad(k, invalid, aggregated_records, ctx) ==
    /\ ctx.faults \subseteq 1..Len(aggregated_records)
    /\ \E r \in {immediate_aggregation(
                     load_daily_metrics(
                        insert_staging_records(NewSession(db), FreshRun(db),
                                               aggregated_records),
                        ctx, aggregated_records),
                     aggregated_records, ctx.client)} :
          PLoaded(k, invalid, Len(aggregated_records), ctx.pick, r)

PValidated(k, valid, ctx) ==
    IF valid = <<>>
    THEN /\ ctx.faults = {} /\ ctx.pick = "lo" /\ ~ctx.commitFault
         /\ PExcept(k, <<"No valid records to process">>, db,
                    Observed(k, Len(tasks[k].raw), 0, ctx.pick, NotLoaded,
                             "no valid records", db))
    ELSE \E aggregated_records \in {aggregate_records(valid)} :
            PStageAndLoad(k, Len(tasks[k].raw) - Len(valid), aggregated_records, ctx)

\* From the validated records to the ledger commit: aggregate, stage, load,
\* update the ledger; an exception on the way takes the except block. faults
\* are the records at which the storage fails, pick the row an unordered
\* first() returns, commitFault a failure of the final commit.
PLoad(k, faults, pick, commitFault) ==
    /\ CanRun(k)
    /\ tasks[k].pc = "validated"
    /\ \E valid \in {valid_records(tasks[k].raw, tasks[k].source)} :
          PValidated(k, valid,
                     [base |-> db, client |-> Client, source |-> tasks[k].source,
                      faults |-> faults, pick |-> pick, commitFault |-> commitFault])
    /\ UNCHANGED <<uploads, race>>

\* insert_staging_records raises in bulk_save_objects or flush: the call is
\* not guarded, so the load is skipped and the except block runs on a session
\* whose transaction the failed flush has rolled back and left inactive. Its
\* commit raises, and so do the commits of the except blocks of the caller:
\* nothing is written, the ledger entry stays as it was committed. The sweep
\* goes on with its loop, the other callers end.
PStageFailed(k) ==
    LET t == tasks[k]
    IN /\ CanRun(k)
       /\ t.pc = "validated"
       /\ valid_records(t.raw, t.source) # <<>>
       /\ tasks' = [tasks EXCEPT ![k] =
             IF t.source = "facebook"
             THEN [Idle EXCEPT !.pc = "next", !.queue = t.queue]
             ELSE Idle]
       /\ UNCHANGED <<db, logs, uploads, hist, race>>

\* The failure alert was sent: the try block returns the ledger entry, the
\* except block re-raises.
PAlertDone(k) ==
    /\ CanRun(k)
    /\ tasks[k].pc \in {"alert_failure", "alert_error"}
    /\ tasks' = [tasks EXCEPT ![k].pc = IF @ = "alert_failure" THEN "returned" ELSE "raised"]
    /\ UNCHANGED <<db, logs, uploads, hist, race>>

-----------------------------------------------------------------------------
(* The callers of the pipeline after it returned or raised                 *)

\* The upload status both upload handlers derive from the returned entry.
Processed(upload, log) ==
    IF log.status = "success" THEN [upload EXCEPT !.upload_status = "processed"]
    ELSE IF log.status = "partial"
    THEN [upload EXCEPT !.upload_status = "processed",
                        !.error_message = <<"Partial success: ">> \o log.message]
    ELSE [upload EXCEPT !.upload_status = "failed",
                        !.error_message = <<"ETL failed: ">> \o log.message]

\* process_facebook_upload_background after the pipeline; its except block
\* also writes the ledger entry. Then the loop of the sweep goes on.
FacebookReturn(k) ==
    LET t == tasks[k]
    IN /\ CanRun(k)
       /\ t.pc \in {"returned", "raised"}
       /\ IF t.pc = "returned"
          THEN /\ uploads' = [uploads EXCEPT ![t.upload] = Processed(@, logs[t.log])]
               /\ UNCHANGED logs
          ELSE /\ uploads' = [uploads EXCEPT
                    ![t.upload].upload_status = "failed",
                    ![t.upload].error_message = <<"Processing failed: ">> \o t.err]
               /\ logs' = [logs EXCEPT
                    ![t.log].status = "failed",
                    ![t.log].message = <<"Parsing failed: ">> \o t.err,
                    ![t.log].finished_at = TRUE]
       /\ tasks' = [tasks EXCEPT ![k] = [Idle EXCEPT !.pc = "next", !.queue = t.queue]]
       /\ UNCHANGED <<db, hist, race>>

\* SurfsideUploadHandler.process_upload after the pipeline.
SurfsideReturn ==
    LET t == tasks["upload"]
    IN /\ CanRun("upload")
       /\ t.pc \in {"returned", "raised"}
       /\ uploads' = [uploads EXCEPT ![t.upload] =
            IF t.pc = "returned" THEN Processed(@, logs[t.log])
            ELSE [@ EXCEPT !.upload_status = "failed", !.error_message = t.err]]
       /\ tasks' = [tasks EXCEPT !["upload"] = Idle]
       /\ UNCHANGED <<db, logs, hist, race>>

\* run_all_daily_ingestions after the pipeline: it counts and logs.
DailyReturn ==
    /\ CanRun("daily")
    /\ tasks["daily"].pc \in {"returned", "raised"}
    /\ tasks' = [tasks EXCEPT !["daily"] = Idle]
    /\ UNCHANGED <<db, logs, uploads, hist, race>>

\* resolve_ingestion_error (admin only): the resolution fields and nothing else.
Resolve(l, resolution_status) ==
    /\ Quiet
    /\ admin_emails # {}
    /\ hist.resolves < MaxResolves
    /\ l \in DOMAIN logs
    /\ logs[l].resolution_status # resolution_status
    /\ logs' = [logs EXCEPT ![l].resolution_status = resolution_status]
    /\ hist' = [hist EXCEPT !.resolves = @ + 1]
    /\ UNCHANGED <<db, uploads, tasks, race>>

\* The process dies and restarts: the coroutines are gone, the committed rows stay.
Crash ==
    /\ hist.crashes < MaxCrashes
    /\ \E k \in TaskIds : tasks[k].pc # "idle"
    /\ tasks' = [k \in TaskIds |-> Idle]
    /\ hist' = [hist EXCEPT !.crashes = @ + 1]
    /\ UNCHANGED <<db, logs, uploads, race>>

Picks == {"lo", "hi"}

\* The process dies in run_etl_pipeline after load_daily_metrics has committed
\* and before the ledger update: the rows of the load stay, the ledger entry
\* stays 'processing'.
PLoadCrash(k, pick) ==
    LET t == tasks[k]
        valid == valid_records(t.raw, t.source)
        aggregated_records == aggregate_records(valid)
        ctx == [base |-> db, client |-> Client, source |-> t.source,
                faults |-> {}, pick |-> pick, commitFault |-> FALSE]
        r == load_daily_metrics(
                 insert_staging_records(NewSession(db), FreshRun(db), aggregated_records),
                 ctx, aggregated_records)
    IN /\ CanRun(k)
       /\ t.pc = "validated"
       /\ hist.crashes < MaxCrashes
       /\ valid # <<>>
       /\ ~r.raised
       /\ db' = r.db
       /\ tasks' = [j \in TaskIds |-> Idle]
       /\ hist' = [hist EXCEPT
             !.crashes = @ + 1,
             !.resume = [log |-> t.log, before |-> db,
                         status |-> Finished(logs[t.log], r.loaded, r.failed,
                                             Len(t.raw) - Len(valid)).status]]
       /\ UNCHANGED <<logs, uploads, race>>

\* One Facebook upload, the sweep, and a process that can die at any step of
\* the run.
NextResume ==
    \/ \E file \in Files :
          Len(uploads) < LifecycleUploads /\ FacebookUpload(file, FileNames[1])
    \/ SweepStart("sweep")
    \/ SweepNext("sweep")
    \/ PEnter("sweep")
    \/ \E pick \in Picks : PLoad("sweep", {}, pick, FALSE)
    \/ \E pick \in Picks : PLoadCrash("sweep", pick)
    \/ FacebookReturn("sweep")
    \/ Crash

SpecResume == Started({}, {}) /\ [][NextResume]_vars

\* The names an upload can carry: one used before, or a new one.
UploadNames == {FileNames[i] : i \in 1..(Len(uploads) + 1)}

\* The life of ledger entries and upload records, over the files made of the
\* first LifecycleRows rows of Master.
LifecycleFiles == {f \in Files : \A i \in 1..Len(f) :
                      \E j \in 1..LifecycleRows : f[i] = Master[j]}

Next ==
    \/ \E file \in LifecycleFiles, name \in UploadNames :
          Len(uploads) < LifecycleUploads /\ FacebookUpload(file, name)
    \/ \E file \in LifecycleFiles, name \in UploadNames :
          Len(uploads) < LifecycleUploads /\ SurfsideUpload(file, name)
    \/ \E source \in {"surfside", "vibe"}, file \in LifecycleFiles :
          DailyIngestion(source, file)
    \/ SweepStart("sweep")
    \/ SweepNext("sweep")
    \/ \E k \in TaskIds : PEnter(k)
    \/ \E k \in TaskIds : PAlertValidation(k)
    \/ \E k \in TaskIds, faults \in SUBSET (1..MaxFileLen), pick \in Picks,
          commitFault \in BOOLEAN :
          Cardinality(faults) <= MaxFaults /\ PLoad(k, faults, pick, commitFault)
    \/ \E k \in TaskIds : PAlertDone(k)
    \/ FacebookReturn("sweep")
    \/ SurfsideReturn
    \/ DailyReturn
    \/ \E l \in 1..MaxLogs : Resolve(l, "resolved")
    \/ Crash

Spec == Init /\ [][Next]_vars

\* The same with a database that can refuse a commit of the upload handler.
NextFatal ==
    \/ Next
    \/ FacebookFatal("sweep")

SpecFatal == Init /\ [][NextFatal]_vars

\* The loads: every file of the model through one of the three sources, one
\* run after the other, without admins to alert and without restarts.
SameSource(source) == \A l \in DOMAIN logs : logs[l].source = source

NextLoad ==
    \/ \E file \in Files : SameSource("facebook") /\ FacebookUpload(file, FileNames[1])
    \/ \E source \in {"surfside", "vibe"}, file \in Files :
          SameSource(source) /\ DailyIngestion(source, file)
    \/ SweepStart("sweep")
    \/ SweepNext("sweep")
    \/ \E k \in TaskIds : PEnter(k)
    \/ \E k \in TaskIds, faults \in SUBSET (1..MaxFileLen), pick \in Picks,
          commitFault \in BOOLEAN :
          Cardinality(faults) <= MaxFaults /\ PLoad(k, faults, pick, commitFault)
    \/ FacebookReturn("sweep")
    \/ DailyReturn

SpecLoad == InitLoad /\ [][NextLoad]_vars

\* The loads with a staging table that can refuse the rows of a run.
NextStage ==
    \/ NextLoad
    \/ \E k \in TaskIds : PStageFailed(k)

SpecStage == InitLoad /\ [][NextStage]_vars

\* Recovery: Facebook uploads, the daily job, the sweep when something
\* outside calls it, and restarts; no admins to alert.
Progress ==
    \/ SweepNext("sweep")
    \/ \E k \in TaskIds : PEnter(k)
    \/ FacebookReturn("sweep")
    \/ DailyReturn

Loads ==
    \E k \in TaskIds, faults \in SUBSET (1..MaxFileLen), pick \in Picks,
       commitFault \in BOOLEAN :
       Cardinality(faults) <= MaxFaults /\ PLoad(k, faults, pick, commitFault)

\* The states in which Loads is enabled.
Loading == \E k \in TaskIds : CanRun(k) /\ tasks[k].pc = "validated"

RegisteredJobs ==
    \E source \in {"surfside", "vibe"}, file \in LifecycleFiles : DailyIngestion(source, file)

NextFair ==
    \/ \E file \in LifecycleFiles :
          Len(uploads) < LifecycleUploads /\ FacebookUpload(file, FileNames[1])
    \/ RegisteredJobs
    \/ SweepStart("sweep")
    \/ Progress
    \/ Loads
    \/ Crash

\* The scheduler keeps firing the jobs registered with it, and a coroutine
\* that can go on does (for Loads, whose step leaves Loading, weak fairness
\* is []<>~Loading); nothing obliges an upload, a call of the sweep or a
\* restart to happen.
SpecFair ==
    /\ Started({}, {})
    /\ [][NextFair]_vars
    /\ WF_vars(RegisteredJobs)
    /\ WF_vars(Progress)
    /\ []<>~Loading

-----------------------------------------------------------------------------
(* The summaries: jobs/summaries.py and the summary endpoints               *)

Aggregated(kind, period, start, end, r) ==
    /\ Quiet
    /\ db' = r.db
    /\ hist' = [hist EXCEPT !.agg = [kind |-> kind, period |-> period, start |-> start,
                                     end |-> end,
                                     returned |-> r.returned, raised |-> r.raised,
                                     before |-> db, after |-> r.db]]
    /\ UNCHANGED <<logs, uploads, tasks, race>>

\* aggregate_week for the client, as the weekly job (through
\* aggregate_all_clients_week) and the weekly summary endpoint call it; an
\* exception is logged by the job and answered with an error by the endpoint.
AggregateWeek(week_start, pick) ==
    \E r \in {aggregate_week(db, Client, week_start, pick)} :
       Aggregated("week", week_start, week_start, week_start + 6, r)

AggregateMonth(month, pick) ==
    \E r \in {aggregate_month(db, Client, month, pick)} :
       Aggregated("month", month, first_of_month(month), month_end_of(month), r)

\* The weeks and months of the model: those of the dates of AggMaster and
\* the following month, which has no row.
AggWeeks == {get_week_start(AggMaster[i].date) : i \in DOMAIN AggMaster}
AggMonths == {1, 2, 3}

\* Vibe files loaded by the daily job, without failures of the storage, and
\* the summaries computed in between.
NextAgg ==
    \/ \E file \in AggFiles : DailyIngestion("vibe", file)
    \/ \E k \in TaskIds : PEnter(k)
    \/ \E k \in TaskIds, pick \in Picks : PLoad(k, {}, pick, FALSE)
    \/ DailyReturn
    \/ \E week_start \in AggWeeks, pick \in Picks : AggregateWeek(week_start, pick)
    \/ \E month \in AggMonths, pick \in Picks : AggregateMonth(month, pick)

SpecAgg == Started({}, {}) /\ [][NextAgg]_vars

-----------------------------------------------------------------------------
(* The calculator on its own                                               *)

\* Counts, revenue in cents and rates in cents per thousand impressions.
CalcImpressions == {0, 1, 3, 1000, 1500}
CalcClicks == {0, 1, 20}
CalcConversions == {0, 2, 3}
CalcRevenue == {0, 1, 5000}
CalcCpm == {0, 500, 1000, 1700}

InitCalc ==
    /\ db = EmptyDb
    /\ logs = <<>>
    /\ uploads = <<>>
    /\ tasks = [k \in TaskIds |-> Idle]
    /\ race = RaceIdle
    /\ \E impressions \in CalcImpressions, clicks \in CalcClicks,
          conversions \in CalcConversions, revenue \in CalcRevenue, cpm \in CalcCpm :
          hist = [NoHist EXCEPT !.calc = [NoCalc EXCEPT
                     !.impressions = impressions, !.clicks = clicks,
                     !.conversions = conversions, !.revenue = revenue, !.cpm = cpm]]

\* MetricsCalculator.calculate_all_metrics on the inputs.
Calculate ==
    /\ ~hist.calc.done
    /\ hist' = [hist EXCEPT !.calc.done = TRUE,
                            !.calc.out = calculate_all_metrics(
                                hist.calc.impressions, hist.calc.clicks,
                                hist.calc.conversions, hist.calc.revenue, hist.calc.cpm)]
    /\ UNCHANGED <<db, logs, uploads, tasks, race>>

SpecCalc == InitCalc /\ [][Calculate]_vars

-----------------------------------------------------------------------------
(* The transformer on single raw records                                   *)

ParseDates == {NoDate, 1}
ParseCampaigns == {"", "c1"}
ParseCreatives == {"", "a1 "}
ParseCounts == {OVERFLOWING, UNPARSABLE, MISSING, 0, 1000}
ParseClicks == {UNPARSABLE, 10}
ParseRevenues == {UNPARSABLE, MISSING, 5000}

InitParse ==
    /\ db = EmptyDb
    /\ logs = <<>>
    /\ uploads = <<>>
    /\ tasks = [k \in TaskIds |-> Idle]
    /\ race = RaceIdle
    /\ \E source \in Sources, date \in ParseDates, campaign \in ParseCampaigns,
          creative \in ParseCreatives, impressions \in ParseCounts,
          clicks \in ParseClicks, revenue \in ParseRevenues :
          hist = [NoHist EXCEPT !.parse = [NoParse EXCEPT
                     !.source = source,
                     !.raw = <<[Ad1 EXCEPT !.date = date, !.campaign = campaign,
                                          !.creative = creative,
                                          !.impressions = impressions,
                                          !.clicks = clicks, !.revenue = revenue]>>]]

\* TransformerService.validate_and_transform(records, source) on the record.
Transform ==
    /\ ~hist.parse.done
    /\ hist' = [hist EXCEPT
                  !.parse.done = TRUE,
                  !.parse.valid = valid_records(hist.parse.raw, hist.parse.source),
                  !.parse.invalid = invalid_count(hist.parse.raw, hist.parse.source)]
    /\ UNCHANGED <<db, logs, uploads, tasks, race>>

SpecParse == InitParse /\ [][Transform]_vars

-----------------------------------------------------------------------------
(* The rates: clients/service.py                                           *)

\* add_cpm_settings and update_cpm_settings: both always add a row, with the
\* effective_date the request carries.
AddCpmSettings(client_id, source, cpm, effective_date) ==
    /\ Quiet
    /\ Cardinality(db.settings) < MaxSettings
    /\ db' = [db EXCEPT !.settings = @ \cup
                 {[id |-> FreshId(@), client |-> client_id, source |-> source,
                   cpm |-> cpm, effective_date |-> effective_date]}]
    /\ UNCHANGED <<logs, uploads, tasks, hist, race>>

\* get_current_cpm of the client for a source, now.
GetCurrentCpm(source, pick) ==
    /\ Quiet
    /\ hist' = [hist EXCEPT !.rate =
                  [called |-> TRUE, source |-> source, settings |-> db.settings,
                   found |-> get_current_cpm(db, Client, source, utcnow, pick)]]
    /\ UNCHANGED <<db, logs, uploads, tasks, race>>

OtherClient == 2
RateDates == {utcnow - 1, utcnow + 1}
RateCpms == {1000, 2000}

\* Rates are added and looked up, and the daily job loads a Vibe file of one
\* row without failures of the storage.
NextRate ==
    \/ \E client_id \in {Client, OtherClient}, source \in {"vibe", "facebook"},
          cpm \in RateCpms, effective_date \in RateDates :
          AddCpmSettings(client_id, source, cpm, effective_date)
    \/ \E pick \in Picks : GetCurrentCpm("vibe", pick)
    \/ DailyIngestion("vibe", <<Ad1>>)
    \/ \E k \in TaskIds : PEnter(k)
    \/ \E k \in TaskIds, pick \in Picks : PLoad(k, {}, pick, FALSE)
    \/ DailyReturn

SpecRate == Started({}, {}) /\ [][NextRate]_vars

-----------------------------------------------------------------------------
(* Two calls of the sweep                                                  *)

\* The coroutines that can run check_pending_uploads: the function takes no
\* lock and is registered with no scheduler, so nothing keeps a second call
\* from starting while the first is suspended in an await.
Sweepers == {"sweep", "sweep2"}

\* Facebook uploads with an admin to alert, and the sweep called at any time.
NextSweeps ==
    \/ \E file \in LifecycleFiles, name \in UploadNames : FacebookUpload(file, name)
    \/ \E k \in Sweepers : SweepStart(k)
    \/ \E k \in Sweepers : SweepNext(k)
    \/ \E k \in Sweepers : PEnter(k)
    \/ \E k \in Sweepers : PAlertValidation(k)
    \/ \E k \in Sweepers, pick \in Picks : PLoad(k, {}, pick, FALSE)
    \/ \E k \in Sweepers : PAlertDone(k)
    \/ \E k \in Sweepers : FacebookReturn(k)

SpecSweeps == Started({"admin@x"}, {}) /\ [][NextSweeps]_vars

-----------------------------------------------------------------------------
(* Facebook uploads and a sweep that is called again and again             *)

UploadProgress ==
    \/ SweepNext("sweep")
    \/ PEnter("sweep")
    \/ FacebookReturn("sweep")

NextUploads ==
    \/ \E file \in LifecycleFiles, name \in UploadNames : FacebookUpload(file, name)
    \/ SweepStart("sweep")
    \/ UploadProgress
    \/ Loads

\* Facebook uploads, of one file name or of two, without admins to alert and
\* without restarts. Something outside calls the sweep whenever there is a
\* pending entry, and a coroutine that can go on does.
SpecUploads ==
    /\ Started({}, {})
    /\ [][NextUploads]_vars
    /\ WF_vars(SweepStart("sweep"))
    /\ WF_vars(UploadProgress)
    /\ []<>~Loading

-----------------------------------------------------------------------------
(* vibe/etl.py and vibe/api_client.py: the report of the daily Vibe job    *)

\* The statuses get_report_status answers with; "QUEUED" stands for any
\* status the client does not know.
ReportStatuses == {"DONE", "FAILED", "CREATED", "PROCESSING", "QUEUED"}

\* A status check answers at once or just within the timeout of the client.
CheckSeconds == {0, HttpTimeout}

\* VibeETL.run_for_client up to wait_for_report: the report is created and
\* start_time taken.
VibeCreateReport ==
    /\ tasks["daily"].pc = "idle"
    /\ Len(logs) < MaxLogs
    /\ tasks' = [tasks EXCEPT !["daily"] = [Idle EXCEPT !.pc = "poll", !.source = "vibe"]]
    /\ UNCHANGED <<db, logs, uploads, hist, race>>

\* One iteration of the loop of wait_for_report up to its sleep: the elapsed
\* time is compared, the status asked for and acted on. With DONE the URL is
\* returned, run_for_client downloads and parses the report and calls the
\* pipeline; an exception is wrapped by run_for_client and raised to the job.
VibeCheck(status, seconds, file) ==
    LET t == tasks["daily"]
        asked == [t EXCEPT !.checks = @ + 1, !.elapsed = @ + seconds, !.status = status]
    IN /\ CanRun("daily")
       /\ t.pc = "poll"
       /\ tasks' = [tasks EXCEPT !["daily"] =
            IF t.elapsed > max_wait_seconds
            THEN [t EXCEPT !.pc = "raised", !.err = <<"Report timeout after", max_wait_seconds>>]
            ELSE IF status = "DONE"
            THEN [Idle EXCEPT !.pc = "pipeline", !.source = "vibe", !.raw = file,
                              !.status = status]
            ELSE IF status = "FAILED"
            THEN [asked EXCEPT !.pc = "raised", !.err = <<"Report failed">>]
            ELSE IF status \in {"CREATED", "PROCESSING"}
            THEN [asked EXCEPT !.pc = "sleep"]
            ELSE [asked EXCEPT !.pc = "raised", !.err = <<"Unknown report status">>]]
       /\ UNCHANGED <<db, logs, uploads, hist, race>>

\* await asyncio.sleep(poll_interval)
VibeSleep ==
    /\ CanRun("daily")
    /\ tasks["daily"].pc = "sleep"
    /\ tasks' = [tasks EXCEPT !["daily"].pc = "poll", !["daily"].elapsed = @ + poll_interval]
    /\ UNCHANGED <<db, logs, uploads, hist, race>>

VibePolling ==
    \/ \E status \in ReportStatuses, seconds \in CheckSeconds : VibeCheck(status, seconds, <<Ad1>>)
    \/ VibeSleep

NextPoll ==
    \/ VibeCreateReport
    \/ VibePolling
    \/ PEnter("daily")
    \/ \E pick \in Picks : PLoad("daily", {}, pick, FALSE)
    \/ DailyReturn

\* The daily Vibe job on its own; the event loop resumes a coroutine whose
\* request was answered or whose sleep is over.
SpecPoll == Started({}, {}) /\ [][NextPoll]_vars /\ WF_vars(VibePolling)

-----------------------------------------------------------------------------
(* The ledger entries                                                      *)

Stuck(l) == l \in DOMAIN logs /\ logs[l].status = "processing" /\ ~logs[l].finished_at
Ended(l) == l \in DOMAIN logs /\ logs[l].status \in Terminal

\* C1: every ledger entry left 'processing' with no finished_at is eventually
\* taken up by a scheduled sweep and reaches success, partial or failed,
\* provided the scheduler keeps firing its registered jobs.
C1_StuckRunRecovered == \A l \in 1..MaxLogs : Stuck(l) ~> Ended(l)

\* C2: once the status of a ledger entry is success, partial or failed, no
\* step writes its status, message or counts again.
C2_TerminalWrittenOnce ==
    [][\A l \in DOMAIN logs :
          logs[l].status \in Terminal =>
             /\ logs'[l].status = logs[l].status
             /\ logs'[l].message = logs[l].message
             /\ logs'[l].records_loaded = logs[l].records_loaded
             /\ logs'[l].records_failed = logs[l].records_failed]_vars

\* C3: a ledger entry with a terminal status never goes back to 'processing',
\* and from then on only its resolution fields change.
C3_StatusMonotonic ==
    [][\A l \in DOMAIN logs :
          logs[l].status \in Terminal =>
             /\ logs'[l].status # "processing"
             /\ [logs'[l] EXCEPT !.resolution_status = ""] =
                [logs[l] EXCEPT !.resolution_status = ""]]_vars

-----------------------------------------------------------------------------
(* The loads                                                               *)

LastLog == logs[hist.last.log]
Batch == aggregate_records(valid_records(hist.last.raw, hist.last.source))
Dimensions(dbv) == <<dbv.campaigns, dbv.strategies, dbv.placements, dbv.creatives>>

\* The batch of the last run loaded once more, on what that run left.
Reload(pick) ==
    load_daily_metrics(
        insert_staging_records(NewSession(hist.last.after), FreshRun(hist.last.after), Batch),
        [base |-> hist.last.after, client |-> Client, source |-> hist.last.source,
         faults |-> {}, pick |-> pick, commitFault |-> FALSE],
        Batch)

\* C4: loading the same batch a second time leaves the fact rows (their
\* number and every raw and derived value) and the dimension rows as the
\* first load left them.
C4_LoadIdempotent ==
    (hist.last.outcome = "finished" /\ hist.last.failed = 0) =>
        \A pick \in Picks :
            /\ Reload(pick).db.facts = hist.last.after.facts
            /\ Dimensions(Reload(pick).db) = Dimensions(hist.last.after)

\* C5: no two fact rows share (client, date, campaign, strategy, placement,
\* creative, source), null ids comparing equal.
C5_FactKeyUnique ==
    \A f \in db.facts, g \in db.facts : FactKey(f) = FactKey(g) => f = g

C8_CommitFailureIsFatal ==
    hist.last.outcome = "commit failed" =>
        /\ db.facts = hist.last.before.facts
        /\ LastLog.status = "failed"
        /\ LastLog.records_failed = Len(hist.last.raw)
        /\ LastLog.records_loaded = 0

C8_CommitFailed ==
    /\ hist.last.outcome = "commit failed"
    /\ hist.last.n > 1
    /\ hist.last.before.facts # {}
    /\ LastLog.records_failed = Len(hist.last.raw)

\* The records of a run that failed to load: those the loop counted, or all
\* the valid ones when the pipeline raised.
LoadFailures(run) ==
    IF run.outcome = "finished" THEN run.failed ELSE Len(run.raw) - run.invalid

Classified(log, run) ==
    /\ log.status = "success" <=> (run.invalid = 0 /\ LoadFailures(run) = 0)
    /\ log.status = "partial" <=>
          (log.records_loaded > 0 /\ (run.invalid > 0 \/ LoadFailures(run) > 0))
    /\ log.status = "failed" <=> log.records_loaded = 0
    /\ log.records_failed = LoadFailures(run) + run.invalid

\* C9 as stated: a run ends 'success' exactly when no record is invalid and
\* none fails to load, 'partial' exactly when some record is loaded and some
\* is invalid or fails, 'failed' exactly when none is loaded; records_failed
\* is load failures plus invalid records.
C9_Classification == hist.last.outcome # "" => Classified(LastLog, hist.last)

\* C9, amended: the classification holds for every run over a batch of at
\* least one record; a run over a batch without records ends 'failed'.
C9_ClassificationOfRecords ==
    hist.last.outcome # "" =>
        IF hist.last.raw # <<>> THEN Classified(LastLog, hist.last)
        ELSE LastLog.status = "failed" /\ LastLog.records_failed = 0

C9_PartialRun ==
    /\ hist.last.outcome = "finished"
    /\ LastLog.status = "partial"
    /\ hist.last.invalid > 0
    /\ hist.last.failed > 0

\* The raw rows a source's transform rejects.
Rejected(raw, source) ==
    \/ raw.date = NoDate
    \/ raw.revenue = UNPARSABLE
    \/ source # "surfside" /\ raw.campaign = ""

Complete(raw) ==
    /\ raw.date # NoDate /\ raw.revenue # UNPARSABLE
    /\ raw.campaign # "" /\ raw.strategy # "" /\ raw.placement # ""
    /\ raw.creative # ""

Lacking(run, field) == {i \in DOMAIN run.raw : run.raw[i][field] = ""}
Undated(run) == {i \in DOMAIN run.raw : run.raw[i].date = NoDate}

\* A finished run over three raw records, all complete but those of `lack`,
\* in which no record failed to load.
ThreeWithOneLacking(run, lack) ==
    /\ run.outcome = "finished"
    /\ run.failed = 0
    /\ Len(run.raw) = 3
    /\ Cardinality(lack) = 1
    /\ \A i \in DOMAIN run.raw \ lack : Complete(run.raw[i])

-----------------------------------------------------------------------------
(* Two loads at once                                                       *)

\* Two processes of the application load Facebook batches for the same client
\* over the same database, each in its own transaction (READ COMMITTED: a
\* query sees the committed rows and the transaction's own). A record is the
\* campaign name; every record names the creative RaceCreative. db holds the
\* committed rows, race the two transactions.
RaceWorkers == {1, 2}
RaceCreative == "a1"
RaceBatches ==
    UNION {[1..n -> {"c1", "c2"}] : n \in 1..MaxRaceLen}

RaceWorker(batch) ==
    [pc |-> "find_campaign", batch |-> batch, idx |-> 1,
     campaigns |-> {}, creatives |-> {}, campaign |-> NULL,
     loaded |-> 0, failed |-> 0, conflicts |-> 0]

\* The campaigns that earlier loads have left.
RaceCampaigns(names) ==
    {[id |-> 1, client |-> Client, name |-> n, source |-> "facebook"] : n \in names}

InitRace ==
    /\ \E names \in {{}, {"c1"}} : db = [EmptyDb EXCEPT !.campaigns = RaceCampaigns(names)]
    /\ logs = <<>>
    /\ uploads = <<>>
    /\ tasks = [k \in TaskIds |-> Idle]
    /\ hist = NoHist
    /\ \E b1 \in RaceBatches, b2 \in RaceBatches :
          race = [on |-> TRUE, w |-> <<RaceWorker(b1), RaceWorker(b2)>>]

Other(i) == 3 - i
RaceName(w) == w.batch[w.idx]
RaceKey(w) == {r \in db.campaigns \cup race.w[1].campaigns \cup race.w[2].campaigns :
                 r.client = Client /\ r.name = RaceName(w) /\ r.source = "facebook"}
RaceFreshId(table) ==
    FreshId(db[table] \cup race.w[1][table] \cup race.w[2][table])

\* The next record of the loop, or the final commit.
RaceNextRecord(w) ==
    [w EXCEPT !.idx = @ + 1, !.campaign = NULL,
              !.pc = IF w.idx < Len(w.batch) THEN "find_campaign" ELSE "commit"]

\* The except clause of the loop: failed += 1 and db.rollback().
RaceRecordFailed(w) ==
    RaceNextRecord([w EXCEPT !.failed = @ + 1, !.conflicts = @ + 1,
                             !.campaigns = {}, !.creatives = {}])

\* find_or_create_campaign: the query.
RaceFindCampaign(i) ==
    LET w == race.w[i]
        hit == RaceKey(w) \cap (db.campaigns \cup w.campaigns)
    IN /\ w.pc = "find_campaign"
       /\ IF hit # {}
          THEN \E r \in hit :
                  race' = [race EXCEPT !.w[i].campaign = r.id,
                                       !.w[i].pc = "find_creative"]
          ELSE race' = [race EXCEPT !.w[i].pc = "insert_campaign"]
       /\ UNCHANGED <<db, logs, uploads, tasks, hist>>

\* find_or_create_campaign: db.add and db.flush. The INSERT waits while the
\* other transaction holds an uncommitted row of the same key; against a
\* committed row of the same key it violates uq_campaign_client_name_source,
\* and the exception reaches the except clause of the loop.
RaceInsertCampaign(i) ==
    LET w == race.w[i]
        id == RaceFreshId("campaigns")
    IN /\ w.pc = "insert_campaign"
       /\ RaceKey(w) \cap race.w[Other(i)].campaigns = {}
       /\ IF RaceKey(w) \cap db.campaigns # {}
          THEN race' = [race EXCEPT !.w[i] = RaceRecordFailed(w)]
          ELSE race' = [race EXCEPT
                  !.w[i].campaigns = @ \cup {[id |-> id, client |-> Client,
                                              name |-> RaceName(w),
                                              source |-> "facebook"]},
                  !.w[i].campaign = id,
                  !.w[i].pc = "find_creative"]
       /\ UNCHANGED <<db, logs, uploads, tasks, hist>>

\* Each INSERT waits for the other transaction: the database aborts one of
\* the two, whose record fails.
RaceDeadlock(i) ==
    /\ \A k \in RaceWorkers :
          /\ race.w[k].pc = "insert_campaign"
          /\ RaceKey(race.w[k]) \cap race.w[Other(k)].campaigns # {}
    /\ race' = [race EXCEPT !.w[i] = RaceRecordFailed(race.w[i])]
    /\ UNCHANGED <<db, logs, uploads, tasks, hist>>

\* find_or_create_creative: the query, on name and campaign_id.
RaceFindCreative(i) ==
    LET w == race.w[i]
        hit == {r \in db.creatives \cup w.creatives :
                  r.name = RaceCreative /\ r.campaign_id = w.campaign}
    IN /\ w.pc = "find_creative"
       /\ race' = [race EXCEPT !.w[i].pc =
                     IF hit # {} THEN "add_metric" ELSE "insert_creative"]
       /\ UNCHANGED <<db, logs, uploads, tasks, hist>>

\* find_or_create_creative: db.add and db.flush; creatives has no unique
\* constraint, the INSERT neither waits nor fails.
RaceInsertCreative(i) ==
    LET w == race.w[i]
    IN /\ w.pc = "insert_creative"
       /\ race' = [race EXCEPT
             !.w[i].creatives = @ \cup {[id |-> RaceFreshId("creatives"),
                                         placement_id |-> NULL,
                                         campaign_id |-> w.campaign,
                                         name |-> RaceCreative]},
             !.w[i].pc = "add_metric"]
       /\ UNCHANGED <<db, logs, uploads, tasks, hist>>

\* The rest of the loop body: the record's fact row is added, loaded += 1.
RaceAddMetric(i) ==
    /\ race.w[i].pc = "add_metric"
    /\ race' = [race EXCEPT !.w[i] = RaceNextRecord([race.w[i] EXCEPT !.loaded = @ + 1])]
    /\ UNCHANGED <<db, logs, uploads, tasks, hist>>

\* The final db.commit().
RaceCommit(i) ==
    LET w == race.w[i]
    IN /\ w.pc = "commit"
       /\ db' = [db EXCEPT !.campaigns = @ \cup w.campaigns,
                           !.creatives = @ \cup w.creatives]
       /\ race' = [race EXCEPT !.w[i].campaigns = {}, !.w[i].creatives = {},
                               !.w[i].pc = "done"]
       /\ UNCHANGED <<logs, uploads, tasks, hist>>

NextRace ==
    \E i \in RaceWorkers :
        \/ RaceFindCampaign(i)
        \/ RaceInsertCampaign(i)
        \/ RaceDeadlock(i)
        \/ RaceFindCreative(i)
        \/ RaceInsertCreative(i)
        \/ RaceAddMetric(i)
        \/ RaceCommit(i)

SpecRace == InitRace /\ [][NextRace]_vars

\* C6: whatever the interleaving of two loads for the same client, every
\* (client, name, source) has one campaign row and every (campaign, name) one
\* creative row, and no record of either load fails on an insert conflict.
C6_ResolutionRaceSafe ==
    /\ \A x \in db.campaigns, y \in db.campaigns :
          (x.client = y.client /\ x.name = y.name /\ x.source = y.source) => x = y
    /\ \A x \in db.creatives, y \in db.creatives :
          (x.campaign_id = y.campaign_id /\ x.placement_id = y.placement_id
             /\ x.name = y.name) => x = y
    /\ race.on => \A i \in RaceWorkers : race.w[i].conflicts = 0

-----------------------------------------------------------------------------
(* The summaries, under SpecAgg                                            *)

\* The summary rows of the client for the period of the last aggregation.
Written(dbv) ==
    {s \in IF hist.agg.kind = "week" THEN dbv.weekly ELSE dbv.monthly :
       s.client = Client /\ s.start = hist.agg.start}

\* The fact rows of that period when the aggregation was called.
Summed == PeriodFacts(hist.agg.before, Client, hist.agg.start, hist.agg.end)

SameTotals(s, rows) ==
    /\ s.impressions = func_sum(rows, "impressions")
    /\ s.clicks = func_sum(rows, "clicks")
    /\ s.conversions = func_sum(rows, "conversions")
    /\ s.revenue = func_sum(rows, "conversion_revenue")
    /\ s.spend = func_sum(rows, "spend")

Rerun(pick) ==
    IF hist.agg.kind = "week"
    THEN aggregate_week(hist.agg.after, Client, hist.agg.period, pick)
    ELSE aggregate_month(hist.agg.after, Client, hist.agg.period, pick)

TopLists(s) == <<s.top_campaigns.by_conversions, s.top_campaigns.by_revenue,
                 s.top_creatives.by_conversions, s.top_creatives.by_revenue>>
RankedBy(i) == IF i % 2 = 1 THEN "conversions" ELSE "revenue"

\* Two top-performer lists that differ at most in the places of entries of
\* equal ranking sum.
SameButTies(a, b, key) ==
    /\ Len(a) = Len(b)
    /\ \A i \in DOMAIN a :
          /\ a[i][key] = b[i][key]
          /\ (\A j \in DOMAIN a : j # i => a[j][key] # a[i][key]) => a[i] = b[i]

Tied(list, key) == \E i, j \in DOMAIN list : i # j /\ list[i][key] = list[j][key]

month_of(d) == CHOOSE m \in DOMAIN MonthDays : first_of_month(m) <= d /\ d <= month_end_of(m)

\* The summary of a period in dbv carries the sums of the period's fact rows in dbv.
Reflects(summaries, dbv, start, end) ==
    \E s \in summaries : /\ s.client = Client
                         /\ s.start = start
                         /\ SameTotals(s, PeriodFacts(dbv, Client, start, end))

\* C13: when the pipeline has finished a load with at least one record
\* loaded, then at the ledger transition the weekly and the monthly summary
\* of every date of the batch are there and carry the sums of the fact rows,
\* the newly loaded ones included.
C13_RollupAfterLoad ==
    (hist.last.outcome = "finished" /\ hist.last.loaded > 0) =>
       \A i \in DOMAIN Batch :
          /\ Reflects(hist.last.after.weekly, hist.last.after,
                      get_week_start(Batch[i].date), get_week_start(Batch[i].date) + 6)
          /\ Reflects(hist.last.after.monthly, hist.last.after,
                      first_of_month(month_of(Batch[i].date)),
                      month_end_of(month_of(Batch[i].date)))

-----------------------------------------------------------------------------
(* The calculator, under SpecCalc                                          *)

\* C14: calculate_all_metrics returns spend = impressions / 1000 x rate
\* rounded to cents, 0 for no impressions; CTR = clicks / impressions as a
\* ratio rounded to 6 places; CPC = spend / clicks, CPA = spend / conversions
\* and ROAS = revenue / spend rounded to 4 places; 1000 impressions, 20
\* clicks, 2 conversions, revenue 50.00 and rate 10.00 give spend 10.00, CTR
\* 0.020000, CPC 0.5000, CPA 5.0000 and ROAS 5.0000.
C14_MetricFormulas ==
    hist.calc.done =>
       LET c == hist.calc
       IN /\ c.out.spend = RoundHalfEven(c.impressions * c.cpm, 1000)
          /\ c.impressions = 0 => c.out.spend = 0
          /\ c.impressions > 0 => c.out.ctr = RoundHalfEven(c.clicks * 1000000, c.impressions)
          /\ c.clicks > 0 => c.out.cpc = RoundHalfEven(c.out.spend * 100, c.clicks)
          /\ c.conversions > 0 => c.out.cpa = RoundHalfEven(c.out.spend * 100, c.conversions)
          /\ c.out.spend > 0 => c.out.roas = RoundHalfEven(c.revenue * 10000, c.out.spend)
          /\ (c.impressions = 1000 /\ c.clicks = 20 /\ c.conversions = 2
              /\ c.revenue = 5000 /\ c.cpm = 1000)
             => c.out = [spend |-> 1000, ctr |-> 20000, cpc |-> 5000, cpa |-> 50000,
                         roas |-> 50000]

-----------------------------------------------------------------------------
(* Zero counts and rates, under SpecLoad                                   *)

ZeroCounts(rec) == rec.impressions = 0 \/ rec.clicks = 0 \/ rec.conversions = 0

\* The derived fields whose divisor is zero hold the sentinel 0.
SentinelStored(f) ==
    /\ f.impressions = 0 => f.ctr = 0
    /\ f.clicks = 0 => f.cpc = 0
    /\ f.conversions = 0 => f.cpa = 0
    /\ f.spend = 0 => f.roas = 0

\* C15: a record with a zero count is loaded as a fact row counted in
\* `loaded`, the sentinel stored in the derived field, and is no per-record
\* or commit failure: neither in the run that first loads it nor when the
\* same one-record batch is loaded again.
C15_ZeroCountsAreLoaded ==
    (/\ hist.last.outcome = "finished"
     /\ hist.last.failed = 0
     /\ Len(Batch) = 1
     /\ ZeroCounts(Batch[1])) =>
        /\ hist.last.loaded = 1
        /\ \A f \in hist.last.after.facts : SentinelStored(f)
        /\ \A pick \in Picks :
              /\ ~Reload(pick).raised
              /\ Reload(pick).loaded = 1
              /\ Reload(pick).failed = 0
              /\ \A f \in Reload(pick).db.facts : SentinelStored(f)

-----------------------------------------------------------------------------
(* The rates, under SpecRate                                               *)

\* The settings a lookup of the client and source may consider at the instant.
Qualifying(settings, source) ==
    {s \in settings : s.client = Client /\ s.source = source /\ s.effective_date <= utcnow}

\* C16: get_current_cpm returns the one setting of the client and source
\* with the greatest effective timestamp not after the instant, the same row
\* on every call on the same settings, ties on the timestamp included, and
\* none when no setting qualifies; a load that finds no qualifying setting
\* uses the rate 17.00 and loads its records.
C16_RateLookup ==
    /\ hist.rate.called =>
          LET qual == Qualifying(hist.rate.settings, hist.rate.source)
          IN /\ qual = {} => hist.rate.found = {}
             /\ qual # {} =>
                   /\ hist.rate.found \subseteq qual
                   /\ \A s \in hist.rate.found, q \in qual :
                         q.effective_date <= s.effective_date
                   /\ \A pick \in Picks :
                         get_current_cpm([EmptyDb EXCEPT !.settings = hist.rate.settings],
                                         Client, hist.rate.source, utcnow, pick)
                         = hist.rate.found
    /\ (/\ hist.last.outcome = "finished"
        /\ Qualifying(hist.last.before.settings, hist.last.source) = {}) =>
          /\ hist.last.loaded = hist.last.n
          /\ hist.last.failed = 0
          /\ \A f \in hist.last.after.facts \ hist.last.before.facts :
                f.spend = calculate_spend(f.impressions, DefaultCpm)

-----------------------------------------------------------------------------
(* The sweep, under SpecSweeps                                             *)

InFlight(k) == tasks[k].pc # "idle"

\* C17: no two executions of check_pending_uploads are in flight together.
C17_OneSweepInFlight ==
    \A j \in Sweepers, k \in Sweepers : (InFlight(j) /\ InFlight(k)) => j = k

-----------------------------------------------------------------------------
(* The sweep, under Spec                                                   *)

\* The ledger entries a step has written.
Written_logs == {l \in DOMAIN logs : l \in DOMAIN logs' /\ logs'[l] # logs[l]}

\* C18: the sweep hands the pipeline the id of the existing ledger entry; no
\* step of the sweep changes the number of ledger entries, and the terminal
\* status, the counts and finished_at are written on that same entry.
C18_SweepCompletesSameEntry ==
    [][tasks'["sweep"] # tasks["sweep"] =>
         /\ Len(logs') = Len(logs)
         /\ tasks'["sweep"].pc = "pipeline" =>
               /\ tasks'["sweep"].log \in DOMAIN logs
               /\ tasks'["sweep"].log = Head(tasks["sweep"].queue)
         /\ tasks["sweep"].pc \in {"pipeline", "alert_validation", "validated"} =>
               tasks'["sweep"].log = tasks["sweep"].log \/ tasks'["sweep"] = Idle
         /\ tasks["sweep"].pc = "validated" =>
               \/ tasks'["sweep"] = Idle
               \/ /\ Written_logs = {tasks["sweep"].log}
                  /\ logs'[tasks["sweep"].log].status \in Terminal
                  /\ logs'[tasks["sweep"].log].finished_at
                  /\ logs'[tasks["sweep"].log].records_loaded = hist'.last.loaded]_vars

\* The sweep has taken a pending entry through the pipeline, which returned:
\* the one ledger entry there is is terminal.
C18_SweepFinishedRun ==
    /\ tasks["sweep"].pc = "returned"
    /\ Len(logs) = 1
    /\ logs[tasks["sweep"].log].status \in Terminal
    /\ logs[tasks["sweep"].log].finished_at
    /\ logs[tasks["sweep"].log].records_loaded > 0

\* The sweep is at a pending entry that has no upload record.
AtOrphan ==
    /\ tasks["sweep"].pc = "next"
    /\ tasks["sweep"].queue # <<>>
    /\ uploaded_file(Head(tasks["sweep"].queue)) = NULL

\* C19: at a pending run without an upload record the sweep writes that run
\* 'failed' with the message 'Source file record not found' and a finished_at,
\* leaves every other run, the uploads and the tables as they are, and goes
\* on with the rest of the pending runs.
C19_OrphanRunIsFailed ==
    [][(AtOrphan /\ tasks'["sweep"] # tasks["sweep"] /\ tasks'["sweep"].pc # "idle") =>
         LET l == Head(tasks["sweep"].queue)
         IN /\ logs'[l].status = "failed"
            /\ logs'[l].message = <<"Source file record not found">>
            /\ logs'[l].finished_at
            /\ logs'[l].records_loaded = logs[l].records_loaded
            /\ Len(logs') = Len(logs)
            /\ \A m \in DOMAIN logs : m # l => logs'[m] = logs[m]
            /\ uploads' = uploads
            /\ db' = db
            /\ tasks'["sweep"].pc = "next"
            /\ tasks'["sweep"].queue = Tail(tasks["sweep"].queue)]_vars

\* The sweep has failed a run without upload record and is in the pipeline
\* for the next pending run.
C19_OrphanFailedSweepGoesOn ==
    /\ Len(logs) = 2
    /\ logs[1].status = "failed"
    /\ logs[1].message = <<"Source file record not found">>
    /\ logs[1].finished_at
    /\ tasks["sweep"].pc = "pipeline"
    /\ tasks["sweep"].log = 2

-----------------------------------------------------------------------------
(* The upload requests, under Spec                                         *)

\* C20: an upload request, Facebook or Surfside, persists the upload record
\* and a ledger entry 'processing' and returns without running the pipeline:
\* no coroutine of the request goes on into the pipeline, which runs later in
\* the sweep only.
C20_UploadOnlyRegisters ==
    [][/\ Len(uploads') > Len(uploads) =>
             /\ Len(logs') = Len(logs) + 1
             /\ logs'[Len(logs')].status = "processing"
             /\ ~logs'[Len(logs')].finished_at
             /\ logs'[Len(logs')].source = uploads'[Len(uploads')].source
             /\ uploads'[Len(uploads')].upload_status = "processing"
             /\ tasks' = tasks
       /\ tasks'["upload"].pc = "idle"]_vars

-----------------------------------------------------------------------------
(* The upload records, under SpecUploads: the Facebook upload u and its    *)
(* ledger entry are created together, as the u-th of each.                 *)

UploadEnded(u) == u \in DOMAIN uploads /\ uploads[u].upload_status \in {"processed", "failed"}

\* C21: every upload record accepted as 'processing' eventually is
\* 'processed' or 'failed', two uploads of one file name and failing loads
\* included; and once the upload and its run are both terminal, the upload is
\* 'processed' exactly when the run is success or partial and 'failed'
\* exactly when the run is failed.
C21_UploadsEndConsistent ==
    /\ \A u \in 1..MaxUploads :
          (u \in DOMAIN uploads /\ uploads[u].upload_status = "processing") ~> UploadEnded(u)
    /\ [](\A u \in DOMAIN uploads :
             (UploadEnded(u) /\ logs[u].status \in Terminal) =>
                /\ uploads[u].upload_status = "processed"
                      <=> logs[u].status \in {"success", "partial"}
                /\ uploads[u].upload_status = "failed" <=> logs[u].status = "failed")

-----------------------------------------------------------------------------
(* Notifications, the sweep against running pipelines and the resolution   *)
(* axis, under Spec                                                        *)

AlertPcs == {"alert_validation", "alert_failure", "alert_error"}

\* The ledger entries a step makes 'failed'.
NewlyFailed == {l \in DOMAIN logs' : /\ logs'[l].status = "failed"
                                     /\ (l \in DOMAIN logs => logs[l].status # "failed")}

\* C22: with admins to tell, every step that makes a run 'failed' (the end of
\* the pipeline, its except block, the parse failure of the upload handler,
\* the force-fail of the sweep) leaves a coroutine in the failure alert for
\* that run; a batch with invalid records enters the validation alert; and
\* the end of an alert, sent or not, changes no ledger entry.
C22_FailureIsNotified ==
    [][admin_emails # {} =>
         /\ \A l \in NewlyFailed :
               \E k \in TaskIds : /\ tasks'[k].log = l
                                  /\ tasks'[k].pc \in {"alert_failure", "alert_error"}
         /\ \A k \in TaskIds :
               (/\ tasks[k].pc = "pipeline"
                /\ tasks'[k].pc \notin {"pipeline", "idle"}
                /\ invalid_count(tasks[k].raw, tasks[k].source) > 0)
                  => tasks'[k].pc = "alert_validation"
         /\ \A k \in TaskIds :
               (tasks[k].pc \in AlertPcs /\ tasks'[k] # tasks[k]) => logs' = logs]_vars

\* The ledger entries a pipeline is executing: those of the coroutines that
\* are inside run_etl_pipeline.
Executing(k) == tasks[k].pc \in {"alert_validation", "validated", "alert_failure", "alert_error"}

\* C24: a step of the sweep never writes the ledger entry of a run whose
\* pipeline is executing in another coroutine (the daily job, a Surfside
\* upload request) and never starts a pipeline for it.
C24_SweepSparesRunningRuns ==
    [][\A k \in TaskIds \ {"sweep"} :
          (Executing(k) /\ tasks'["sweep"] # tasks["sweep"]) =>
             /\ logs'[tasks[k].log] = logs[tasks[k].log]
             /\ tasks'["sweep"].pc = "pipeline" => tasks'["sweep"].log # tasks[k].log]_vars

\* C28: the step that ends a run leaves resolution_status null for 'success'
\* and 'unresolved' for 'failed' and 'partial'; any later change of
\* resolution_status sets 'resolved' or 'ignored', leaves the other fields of
\* the entry as they are and is no step of a coroutine.
C28_ResolutionAxis ==
    [][\A l \in DOMAIN logs' :
          /\ ((l \in DOMAIN logs => logs[l].status = "processing")
              /\ logs'[l].status \in Terminal) =>
                logs'[l].resolution_status =
                   IF logs'[l].status = "success" THEN "" ELSE "unresolved"
          /\ (l \in DOMAIN logs /\ logs'[l].resolution_status # logs[l].resolution_status) =>
                /\ logs'[l].resolution_status \in {"resolved", "ignored"}
                /\ logs'[l] = [logs[l] EXCEPT !.resolution_status = logs'[l].resolution_status]
                /\ tasks' = tasks]_vars

-----------------------------------------------------------------------------
(* The report polling, under SpecPoll                                      *)

Polling == tasks["daily"].pc \in {"poll", "sleep"}

\* C23: wait_for_report returns only on a status check that answered DONE;
\* it raises on FAILED and on an unknown status; once the elapsed time is
\* over max_wait_seconds it raises the time-out without a further check; it
\* sleeps poll_interval between checks; the checks of one report number at
\* most max_wait_seconds / poll_interval + 1 and at most the hourly rate
\* limit; and the polling ends.
C23_PollingBounded ==
    /\ [][LET t == tasks["daily"]
              n == tasks'["daily"]
          IN /\ (t.pc = "poll" /\ n.pc = "pipeline") =>
                   n.status = "DONE" /\ t.elapsed <= max_wait_seconds
             /\ (t.pc = "poll" /\ n.checks > t.checks /\ n.status \in {"FAILED", "QUEUED"}) =>
                   n.pc = "raised" /\ n.err # <<"Report timeout after", max_wait_seconds>>
             /\ (t.pc = "poll" /\ t.elapsed > max_wait_seconds /\ n # t) =>
                   /\ n.pc \in {"raised", "idle"}
                   /\ n.pc = "raised" =>
                         n.err = <<"Report timeout after", max_wait_seconds>> /\ n.checks = t.checks
             /\ (t.pc = "sleep" /\ n.pc = "poll") => n.elapsed = t.elapsed + poll_interval]_vars
    /\ [](/\ tasks["daily"].checks <= max_wait_seconds \div poll_interval + 1
          /\ tasks["daily"].checks <= VIBE_RATE_LIMIT_PER_HOUR)
    /\ Polling ~> ~Polling


-----------------------------------------------------------------------------
(* Batch aggregation                                                       *)

SummedMetrics == {"impressions", "clicks", "conversions", "conversion_revenue"}

\* The sum of a metric over the records of a list that have the key.
RECURSIVE KeySum(_, _, _)
KeySum(records, key, metric) ==
    IF records = <<>> THEN 0
    ELSE (IF DimKey(Head(records)) = key THEN Head(records)[metric] ELSE 0)
         + KeySum(Tail(records), key, metric)

RECURSIVE MetricTotal(_, _)
MetricTotal(records, metric) ==
    IF records = <<>> THEN 0
    ELSE Head(records)[metric] + MetricTotal(Tail(records), metric)

KeysOf(records) == {DimKey(records[i]) : i \in DOMAIN records}

Validated == valid_records(hist.last.raw, hist.last.source)

\* C25: aggregate_records returns one record per distinct (date, campaign,
\* strategy, placement, creative) key of the valid records of a run, each
\* with the sums of impressions, clicks, conversions and revenue of the
\* records of that key, so the totals of the batch are kept and no two
\* records of the result share a key; the pipeline stages and loads this
\* list: the run counts its records and the staging rows are its rows.
C25_AggregationSumsPerKey ==
    hist.last.outcome # "" =>
        /\ \A i, j \in DOMAIN Batch : DimKey(Batch[i]) = DimKey(Batch[j]) => i = j
        /\ KeysOf(Batch) = KeysOf(Validated)
        /\ \A i \in DOMAIN Batch, m \in SummedMetrics :
              Batch[i][m] = KeySum(Validated, DimKey(Batch[i]), m)
        /\ \A m \in SummedMetrics : MetricTotal(Batch, m) = MetricTotal(Validated, m)
        /\ hist.last.outcome \in {"finished", "commit failed"} =>
              hist.last.n = Len(Batch)
        /\ hist.last.outcome = "finished" =>
              /\ hist.last.loaded + hist.last.failed = Len(Batch)
              /\ \A s \in hist.last.after.staging \ hist.last.before.staging :
                    s.idx \in DOMAIN Batch

\* A finished run of three valid rows, two of them of one key with
\* impressions, that loaded two records.
C25_TwoRowsOfOneKey ==
    /\ hist.last.outcome = "finished"
    /\ Len(Validated) = 3
    /\ Len(Batch) = 2
    /\ hist.last.loaded = 2
    /\ \E i \in DOMAIN Batch, v, w \in DOMAIN Validated :
          /\ v < w
          /\ DimKey(Validated[v]) = DimKey(Batch[i])
          /\ DimKey(Validated[w]) = DimKey(Batch[i])
          /\ Validated[v].impressions > 0 /\ Validated[w].impressions > 0
          /\ Batch[i].impressions = Validated[v].impressions + Validated[w].impressions
          /\ hist.last.after.staging \ hist.last.before.staging # {}


-----------------------------------------------------------------------------
(* Numeric cells that do not parse                                         *)

IdentityPresent(raw) ==
    /\ raw.date # NoDate
    /\ raw.campaign # "" /\ raw.strategy # "" /\ raw.placement # "" /\ raw.creative # ""

\* C26: a raw record whose date and identity fields are present is valid
\* whatever its numeric cells hold, a count or a revenue that does not parse
\* being stored as 0; a record is invalid only for a missing date or a
\* missing identity field.
C26_NumbersFallBack ==
    hist.parse.done =>
        LET raw == hist.parse.raw[1]
            out == hist.parse.valid
        IN /\ IdentityPresent(raw) =>
                /\ Len(out) = 1 /\ hist.parse.invalid = 0
                /\ out[1].impressions = (IF raw.impressions < 0 THEN 0 ELSE raw.impressions)
                /\ out[1].clicks = (IF raw.clicks < 0 THEN 0 ELSE raw.clicks)
                /\ out[1].conversion_revenue = (IF raw.revenue < 0 THEN 0 ELSE raw.revenue)
           /\ hist.parse.invalid = 1 => ~IdentityPresent(raw)


-----------------------------------------------------------------------------
(* Staging and the load                                                    *)

\* The task leaves the point between validation and staging with records to
\* stage.
Staging(k) ==
    /\ tasks[k].pc = "validated"
    /\ valid_records(tasks[k].raw, tasks[k].source) # <<>>
    /\ tasks'[k].pc # "validated"

StagedRows(run) ==
    {[run |-> FreshRun(run.before), idx |-> i] : i \in 1..run.n}

\* C27: whether or not the staging write succeeds, the pipeline executes the
\* load with the records of the run and writes a terminal status; and a
\* failure or a rollback in the load leaves the staging rows of the run in
\* the table.
C27_StagingIndependentOfLoad ==
    /\ [][\A k \in TaskIds : Staging(k) =>
              /\ hist'.last.log = tasks[k].log
              /\ hist'.last.outcome \in {"finished", "commit failed"}
              /\ logs'[tasks[k].log].status \in Terminal]_vars
    /\ [](hist.last.outcome \in {"finished", "commit failed"} =>
              StagedRows(hist.last) \subseteq hist.last.after.staging)


-----------------------------------------------------------------------------
(* finished_at                                                             *)

\* C29: in every state a ledger entry has no finished_at if and only if its
\* status is 'processing': every write of a terminal status, the fatal-error
\* path of the upload handler included, records finished_at with it.
C29_FinishedIffTerminal ==
    \A l \in DOMAIN logs : logs[l].finished_at = FALSE <=> logs[l].status = "processing"


-----------------------------------------------------------------------------
(* A run that is cut off and resumed                                       *)

\* The tables the batch of the last run found before its first attempt.
FirstBase == IF hist.resume.log # NULL THEN hist.resume.before ELSE hist.last.before

\* One uninterrupted load of the batch of the last run on those tables.
Uninterrupted(pick) ==
    load_daily_metrics(
        insert_staging_records(NewSession(FirstBase), FreshRun(FirstBase), Batch),
        [base |-> FirstBase, client |-> Client, source |-> hist.last.source,
         faults |-> {}, pick |-> pick, commitFault |-> FALSE],
        Batch)

UninterruptedStatus(pick) ==
    LET r == Uninterrupted(pick)
    IN IF r.raised THEN "failed"
       ELSE Finished(LastLog, r.loaded, r.failed, hist.last.invalid).status

\* The run of an upload ended after the process had died during it.
Resumed ==
    /\ hist.crashes > 0
    /\ hist.last.outcome \in {"finished", "commit failed"}

\* C30: a run that ends after a crash and a resume by the sweep leaves the
\* fact rows and the dimension rows one uninterrupted run of the batch
\* leaves, and ends in the terminal status of that run.
C30_ResumeEquivalent ==
    Resumed =>
        \E pick \in Picks :
            /\ db.facts = Uninterrupted(pick).db.facts
            /\ Dimensions(db) = Dimensions(Uninterrupted(pick).db)
            /\ LastLog.status = UninterruptedStatus(pick)

=============================================================================
